---- MODULE Spec2Model ----
(***************************************************************************)
(* Colorimetric classification and harmony generation of the beauty        *)
(* palette server (metodos_server.py), with the profile store the tools    *)
(* keep in beauty_profiles.json.                                           *)
(*                                                                         *)
(* Numbers.  The undertone score is a sum of halves, so it is kept in      *)
(* half units (score2 = 2 * score).  A hex colour is the sequence of its   *)
(* characters.  HSL values are exact rationals over the denominators named *)
(* below; a float product r*255 whose exact value is a whole number k may  *)
(* land just below k in IEEE arithmetic, so its truncation is k or k-1.    *)
(***************************************************************************)
EXTENDS Integers, Sequences, FiniteSets, TLC

VARIABLES seasons, profiles, palettes, rawg, call, result

vars == <<seasons, profiles, palettes, rawg, call, result>>

(***************************************************************************)
(* dict.get(key, default)                                                  *)
(***************************************************************************)
Get(d, k, default) == IF k \in DOMAIN d THEN d[k] ELSE default

Min(a, b) == IF a <= b THEN a ELSE b

Max(a, b) == IF a >= b THEN a ELSE b

Abs(a) == IF a < 0 THEN -a ELSE a

(***************************************************************************)
(* ColorAnalyzer.SEASONS                                                   *)
(***************************************************************************)
SEASONS ==
  [primavera_calida |->
     [name |-> "Primavera Cálida",
      characteristics |-> "Colores vibrantes, cálidos y claros",
      temperature |-> "calido", saturation |-> "alta", contrast |-> "medio",
      best_colors |-> <<<<"#","F","F","6","B","3","5">>,
                        <<"#","F","7","9","3","1","E">>,
                        <<"#","F","F","D","7","0","0">>,
                        <<"#","3","2","C","D","3","2">>,
                        <<"#","F","F","6","9","B","4">>,
                        <<"#","8","7","C","E","E","B">>>>,
      avoid_colors |-> <<<<"#","0","0","0","0","0","0">>,
                         <<"#","F","F","F","F","F","F">>,
                         <<"#","4","1","6","9","E","1">>,
                         <<"#","8","B","0","0","8","B">>>>],
   primavera_clara |->
     [name |-> "Primavera Clara",
      characteristics |-> "Colores suaves, cálidos y luminosos",
      temperature |-> "calido", saturation |-> "media", contrast |-> "bajo",
      best_colors |-> <<<<"#","F","F","B","6","C","1">>,
                        <<"#","F","F","D","A","B","9">>,
                        <<"#","F","0","E","6","8","C">>,
                        <<"#","9","8","F","B","9","8">>,
                        <<"#","8","7","C","E","F","A">>,
                        <<"#","D","D","A","0","D","D">>>>,
      avoid_colors |-> <<<<"#","0","0","0","0","0","0">>,
                         <<"#","8","B","0","0","0","0">>,
                         <<"#","0","0","0","0","8","0">>,
                         <<"#","4","B","0","0","8","2">>>>],
   verano_suave |->
     [name |-> "Verano Suave",
      characteristics |-> "Colores apagados, frescos y suaves",
      temperature |-> "frio", saturation |-> "baja", contrast |-> "bajo",
      best_colors |-> <<<<"#","B","0","C","4","D","E">>,
                        <<"#","D","8","B","F","D","8">>,
                        <<"#","F","0","F","8","F","F">>,
                        <<"#","E","6","E","6","F","A">>,
                        <<"#","F","A","F","A","F","A">>,
                        <<"#","F","5","F","5","D","C">>>>,
      avoid_colors |-> <<<<"#","F","F","4","5","0","0">>,
                         <<"#","F","F","D","7","0","0">>,
                         <<"#","3","2","C","D","3","2">>,
                         <<"#","F","F","1","4","9","3">>>>],
   verano_frio |->
     [name |-> "Verano Frío",
      characteristics |-> "Colores frescos, suaves con base azul",
      temperature |-> "frio", saturation |-> "media", contrast |-> "medio",
      best_colors |-> <<<<"#","4","1","6","9","E","1">>,
                        <<"#","9","3","7","0","D","B">>,
                        <<"#","F","F","6","9","B","4">>,
                        <<"#","2","0","B","2","A","A">>,
                        <<"#","B","A","5","5","D","3">>,
                        <<"#","7","B","6","8","E","E">>>>,
      avoid_colors |-> <<<<"#","F","F","8","C","0","0">>,
                         <<"#","F","F","6","3","4","7">>,
                         <<"#","D","A","A","5","2","0">>,
                         <<"#","C","D","8","5","3","F">>>>],
   otono_suave |->
     [name |-> "Otoño Suave",
      characteristics |-> "Colores terrosos, cálidos y apagados",
      temperature |-> "calido", saturation |-> "baja", contrast |-> "bajo",
      best_colors |-> <<<<"#","D","2","B","4","8","C">>,
                        <<"#","D","E","B","8","8","7">>,
                        <<"#","F","4","A","4","6","0">>,
                        <<"#","C","D","8","5","3","F">>,
                        <<"#","B","C","8","F","8","F">>,
                        <<"#","A","0","5","2","2","D">>>>,
      avoid_colors |-> <<<<"#","F","F","1","4","9","3">>,
                         <<"#","0","0","B","F","F","F">>,
                         <<"#","7","F","F","F","0","0">>,
                         <<"#","F","F","0","0","F","F">>>>],
   otono_profundo |->
     [name |-> "Otoño Profundo",
      characteristics |-> "Colores ricos, cálidos y saturados",
      temperature |-> "calido", saturation |-> "alta", contrast |-> "alto",
      best_colors |-> <<<<"#","8","B","4","5","1","3">>,
                        <<"#","A","0","5","2","2","D">>,
                        <<"#","C","D","8","5","3","F">>,
                        <<"#","D","A","A","5","2","0">>,
                        <<"#","B","2","2","2","2","2">>,
                        <<"#","8","0","0","0","8","0">>>>,
      avoid_colors |-> <<<<"#","E","0","E","0","E","0">>,
                         <<"#","F","0","F","8","F","F">>,
                         <<"#","8","7","C","E","E","B">>,
                         <<"#","F","F","B","6","C","1">>>>],
   invierno_profundo |->
     [name |-> "Invierno Profundo",
      characteristics |-> "Colores intensos, fríos y dramáticos",
      temperature |-> "frio", saturation |-> "alta", contrast |-> "muy_alto",
      best_colors |-> <<<<"#","0","0","0","0","0","0">>,
                        <<"#","F","F","F","F","F","F">>,
                        <<"#","F","F","0","0","0","0">>,
                        <<"#","0","0","0","0","F","F">>,
                        <<"#","F","F","1","4","9","3">>,
                        <<"#","8","A","2","B","E","2">>>>,
      avoid_colors |-> <<<<"#","F","5","D","E","B","3">>,
                         <<"#","F","F","D","A","B","9">>,
                         <<"#","F","F","E","4","B","5">>,
                         <<"#","F","0","E","6","8","C">>>>],
   invierno_brillante |->
     [name |-> "Invierno Brillante",
      characteristics |-> "Colores vibrantes, fríos y claros",
      temperature |-> "frio", saturation |-> "muy_alta", contrast |-> "alto",
      best_colors |-> <<<<"#","F","F","1","4","9","3">>,
                        <<"#","0","0","B","F","F","F">>,
                        <<"#","7","F","F","F","0","0">>,
                        <<"#","F","F","0","0","F","F">>,
                        <<"#","0","0","F","F","0","0">>,
                        <<"#","F","F","F","F","0","0">>>>,
      avoid_colors |-> <<<<"#","6","9","6","9","6","9">>,
                         <<"#","A","9","A","9","A","9">>,
                         <<"#","D","2","B","4","8","C">>,
                         <<"#","D","E","B","8","8","7">>>>]]

SeasonIds == DOMAIN SEASONS

(***************************************************************************)
(* Enumerations of the create_profile input schema, and a value outside    *)
(* every enumeration.                                                      *)
(***************************************************************************)
SkinTones == {"clara", "media", "oscura"}

VeinColors == {"azul", "azul_verdoso", "purpura", "verde", "verde_oliva", "indefinido"}

JewelryPreferences == {"plata", "oro", "ambos"}

SunReactions == {"se_quema", "broncea_despacio", "broncea_facil"}

LipColors == {"rosado", "coral", "durazno", "cafe_rosado", "rojo_natural"}

ContrastLevels == {"bajo", "medio", "alto"}

Undertones == {"frio", "calido", "neutro"}

Unknown == "otro"

(***************************************************************************)
(* ColorAnalyzer.analyze_undertone.  Scores in half units.                 *)
(***************************************************************************)
vein_scores ==
  [azul |-> -2, azul_verdoso |-> -1, purpura |-> -1,
   verde |-> 2, verde_oliva |-> 2, indefinido |-> 0]

jewelry_scores2 == [plata |-> -3, oro |-> 3, ambos |-> 0]

sun_scores2 == [se_quema |-> -2, broncea_despacio |-> -1, broncea_facil |-> 2]

lip_scores2 == [rosado |-> -1, coral |-> 0, durazno |-> 1]

undertone_score2_unweighted(vein_color, jewelry_preference, sun_reaction, natural_lip_color) ==
  2 * Get(vein_scores, vein_color, 0)
    + Get(jewelry_scores2, jewelry_preference, 0)
    + Get(sun_scores2, sun_reaction, 0)
    + Get(lip_scores2, natural_lip_color, 0)

undertone_score2_lip_default(vein_color, jewelry_preference, sun_reaction, natural_lip_color) ==
  2 * (Get(vein_scores, vein_color, 0) * 2)
    + Get(jewelry_scores2, jewelry_preference, 0)
    + Get(sun_scores2, sun_reaction, 0)
    + Get(lip_scores2, natural_lip_color, -1)

undertone_score2(vein_color, jewelry_preference, sun_reaction, natural_lip_color) ==
  2 * (Get(vein_scores, vein_color, 0) * 2)
    + Get(jewelry_scores2, jewelry_preference, 0)
    + Get(sun_scores2, sun_reaction, 0)
    + Get(lip_scores2, natural_lip_color, 0)

undertone_of_strict(score2) ==
  IF score2 < -2 THEN "frio"
  ELSE IF score2 > 2 THEN "calido"
  ELSE "neutro"

undertone_of(score2) ==
  IF score2 <= -2 THEN "frio"
  ELSE IF score2 >= 2 THEN "calido"
  ELSE "neutro"

confidence_uncapped(score2) == Abs(score2) * 10

\* min(abs(score) * 20, 100)
confidence_of(score2) == Min(Abs(score2) * 10, 100)

\* a score that is kept between calls: it starts from what earlier calls left
analyze_undertone_kept_score(vein_color, jewelry_preference, sun_reaction, natural_lip_color) ==
  LET score2 == undertone_score2(vein_color, jewelry_preference, sun_reaction,
                                 natural_lip_color)
                  + 2 * Cardinality(DOMAIN profiles)
  IN [undertone |-> undertone_of(score2),
      score2 |-> score2,
      confidence |-> confidence_of(score2)]

analyze_undertone(vein_color, jewelry_preference, sun_reaction, natural_lip_color) ==
  LET score2 == undertone_score2(vein_color, jewelry_preference, sun_reaction,
                                 natural_lip_color)
  IN [undertone |-> undertone_of(score2),
      score2 |-> score2,
      confidence |-> confidence_of(score2)]

(***************************************************************************)
(* ColorAnalyzer.determine_season                                          *)
(***************************************************************************)
season_matrix ==
  (<<"clara", "calido", "bajo">> :> "primavera_clara") @@
  (<<"clara", "calido", "medio">> :> "primavera_calida") @@
  (<<"clara", "calido", "alto">> :> "primavera_calida") @@
  (<<"clara", "frio", "bajo">> :> "verano_suave") @@
  (<<"clara", "frio", "medio">> :> "verano_frio") @@
  (<<"clara", "frio", "alto">> :> "invierno_brillante") @@
  (<<"clara", "neutro", "bajo">> :> "verano_suave") @@
  (<<"clara", "neutro", "medio">> :> "verano_frio") @@
  (<<"clara", "neutro", "alto">> :> "invierno_brillante") @@
  (<<"media", "calido", "bajo">> :> "otono_suave") @@
  (<<"media", "calido", "medio">> :> "primavera_calida") @@
  (<<"media", "calido", "alto">> :> "otono_profundo") @@
  (<<"media", "frio", "bajo">> :> "verano_suave") @@
  (<<"media", "frio", "medio">> :> "verano_frio") @@
  (<<"media", "frio", "alto">> :> "invierno_profundo") @@
  (<<"media", "neutro", "bajo">> :> "otono_suave") @@
  (<<"media", "neutro", "medio">> :> "verano_frio") @@
  (<<"media", "neutro", "alto">> :> "invierno_profundo") @@
  (<<"oscura", "calido", "bajo">> :> "otono_suave") @@
  (<<"oscura", "calido", "medio">> :> "otono_profundo") @@
  (<<"oscura", "calido", "alto">> :> "otono_profundo") @@
  (<<"oscura", "frio", "bajo">> :> "invierno_profundo") @@
  (<<"oscura", "frio", "medio">> :> "invierno_profundo") @@
  (<<"oscura", "frio", "alto">> :> "invierno_profundo") @@
  (<<"oscura", "neutro", "bajo">> :> "invierno_profundo") @@
  (<<"oscura", "neutro", "medio">> :> "invierno_profundo") @@
  (<<"oscura", "neutro", "alto">> :> "invierno_profundo")

contrast_adjustments ==
  (<<"negro", "azul">> :> "alto") @@
  (<<"negro", "verde">> :> "alto") @@
  (<<"rubio", "cafe">> :> "medio") @@
  (<<"rubio", "azul">> :> "bajo") @@
  (<<"castano", "verde">> :> "medio") @@
  (<<"pelirrojo", "verde">> :> "alto")

adjusted_contrast_swapped(hair_color, eye_color, contrast_level) ==
  Get(contrast_adjustments, <<eye_color, hair_color>>, contrast_level)

adjusted_contrast(hair_color, eye_color, contrast_level) ==
  Get(contrast_adjustments, <<hair_color, eye_color>>, contrast_level)

\* skin tone and undertone in the other order
season_key_swapped(skin_tone, undertone, adjusted, contrast_level) ==
  <<undertone, skin_tone, adjusted>>

season_key_unadjusted(skin_tone, undertone, adjusted, contrast_level) ==
  <<skin_tone, undertone, contrast_level>>

season_key(skin_tone, undertone, adjusted, contrast_level) ==
  <<skin_tone, undertone, adjusted>>

default_season_frio == "verano_frio"

default_season == "verano_suave"

determine_season(skin_tone, undertone, eye_color, hair_color, contrast_level) ==
  LET adjusted == adjusted_contrast(hair_color, eye_color, contrast_level)
      key == season_key(skin_tone, undertone, adjusted, contrast_level)
      season == Get(season_matrix, key, default_season)
  IN [season |-> season,
      season_info |-> seasons[season],
      confidence |-> 85,
      reasoning |-> <<skin_tone, undertone, adjusted, seasons[season].name>>]

(***************************************************************************)
(* Hex colour strings.  A string is the sequence of its characters.        *)
(***************************************************************************)
HexDigits ==
  <<"0", "1", "2", "3", "4", "5", "6", "7", "8", "9", "a", "b", "c", "d", "e", "f">>

HexValues ==
  [c \in {"0", "1", "2", "3", "4", "5", "6", "7", "8", "9",
          "a", "b", "c", "d", "e", "f", "A", "B", "C", "D", "E", "F"} |->
     CASE c = "0" -> 0 [] c = "1" -> 1 [] c = "2" -> 2 [] c = "3" -> 3
       [] c = "4" -> 4 [] c = "5" -> 5 [] c = "6" -> 6 [] c = "7" -> 7
       [] c = "8" -> 8 [] c = "9" -> 9
       [] c \in {"a", "A"} -> 10 [] c \in {"b", "B"} -> 11
       [] c \in {"c", "C"} -> 12 [] c \in {"d", "D"} -> 13
       [] c \in {"e", "E"} -> 14 [] c \in {"f", "F"} -> 15]

\* str.lstrip('#'): every leading '#' is removed
RECURSIVE lstrip(_)
lstrip(s) ==
  IF Len(s) > 0 /\ Head(s) = "#" THEN lstrip(Tail(s)) ELSE s

\* s[i:j] with 0 <= i <= j
Slice(s, i, j) == SubSeq(s, i + 1, Min(j, Len(s)))

\* int(x, 16) raises ValueError on an empty string or a non-hex character
\* (the strings here hold hex digits, '#' and letters only: no sign, blank or
\* underscore, which int() would accept in places)
int16_ok(x) == Len(x) > 0 /\ \A i \in 1..Len(x) : x[i] \in DOMAIN HexValues

RECURSIVE int16(_)
int16(x) ==
  IF Len(x) = 0 THEN 0
  ELSE 16 * int16(SubSeq(x, 1, Len(x) - 1)) + HexValues[x[Len(x)]]

RECURSIVE hex_digits(_)
hex_digits(n) ==
  IF n < 16 THEN <<HexDigits[n + 1]>>
  ELSE hex_digits(n \div 16) \o <<HexDigits[(n % 16) + 1]>>

\* format(n, "02x")
format_02x(n) ==
  IF n < 0 THEN <<"-">> \o hex_digits(-n)
  ELSE IF n < 16 THEN <<"0">> \o hex_digits(n)
  ELSE hex_digits(n)

(***************************************************************************)
(* HSL values.  h = hn / hd with hd = 6000 * (max - min) in channel units, *)
(* so that the scheme offsets, given in thousandths, stay exact;           *)
(* l = ln / 510; s = sn / sd.                                              *)
(***************************************************************************)
ChannelMax == 255

LDen == 510

HueThousandths == 1000

\* l + 0.2 in units of 1/510
LightnessStep == 102

Max3(a, b, c) == Max(a, Max(b, c))

Min3(a, b, c) == Min(a, Min(b, c))

rgb_to_hls_one_sector(r, g, b) ==
  LET maxc == Max3(r, g, b)
      minc == Min3(r, g, b)
      sumc == maxc + minc
      rangec == maxc - minc
      hd == 6 * HueThousandths * rangec
  IN IF minc = maxc
     THEN [hn |-> 0, hd |-> 6 * HueThousandths, ln |-> sumc, sn |-> 0, sd |-> 1]
     ELSE [hn |-> (HueThousandths * (g - b)) % hd, hd |-> hd, ln |-> sumc,
           sn |-> rangec,
           sd |-> IF sumc <= ChannelMax THEN sumc ELSE LDen - sumc]

\* colorsys.rgb_to_hls on r/255, g/255, b/255
rgb_to_hls(r, g, b) ==
  LET maxc == Max3(r, g, b)
      minc == Min3(r, g, b)
      sumc == maxc + minc
      rangec == maxc - minc
      k == IF r = maxc THEN g - b
           ELSE IF g = maxc THEN 2 * rangec + b - r
           ELSE 4 * rangec + r - g
      hd == 6 * HueThousandths * rangec
  IN IF minc = maxc
     THEN [hn |-> 0, hd |-> 6 * HueThousandths, ln |-> sumc, sn |-> 0, sd |-> 1]
     ELSE [hn |-> (HueThousandths * k) % hd, hd |-> hd, ln |-> sumc,
           sn |-> rangec,
           sd |-> IF sumc <= ChannelMax THEN sumc ELSE LDen - sumc]

hex_ok(hex_color) ==
  LET x == lstrip(hex_color)
  IN \A i \in {0, 2, 4} : int16_ok(Slice(x, i, i + 2))

hex_channels(hex_color) ==
  LET x == lstrip(hex_color)
  IN [i \in 1..3 |-> int16(Slice(x, 2 * (i - 1), 2 * i))]

\* only called when hex_ok(hex_color): otherwise int() raises ValueError
hex_to_hsl(hex_color) ==
  LET c == hex_channels(hex_color)
  IN rgb_to_hls(c[1], c[2], c[3])

\* <<(b * tn) \div td, (b * tn) % td>> for b >= 0 without leaving 32 bits
RECURSIVE MulDivMod(_, _, _)
MulDivMod(b, tn, td) ==
  IF b = 0 THEN <<0, 0>>
  ELSE LET half == MulDivMod(b \div 2, tn, td)
           r2 == 2 * half[2] + (b % 2) * tn
       IN <<2 * half[1] + (r2 \div td), r2 % td>>

\* int(x) of the float nearest to x = (t + phi) / c, where 0 <= phi < 1 and
\* frac says whether phi > 0.  A whole x = k computed in floating point may
\* land on either side of k unless the computation is exact.
int_of_float(t, frac, c, exact) ==
  LET whole == (~frac) /\ (t % c = 0)
      fl == t \div c
  IN IF whole
     THEN IF exact \/ fl = 0 THEN {fl}
          ELSE IF fl > 0 THEN {fl, fl - 1} ELSE {fl, fl + 1}
     ELSE IF t >= 0 THEN {fl} ELSE {fl + 1}

\* int(colorsys._v(m1, m2, hue) * 255), m1 = m1n / (510 * sd), m2 = m1 + b / (510 * sd)
v_times_255(m1n, b, sd, un, ud) ==
  LET hue == un % ud
      tn == IF 6 * hue < ud THEN 6 * hue
            ELSE IF 2 * hue < ud THEN ud
            ELSE IF 3 * hue < 2 * ud THEN 4 * ud - 6 * hue
            ELSE 0
      qr == MulDivMod(Abs(b), tn, ud)
      t == IF b >= 0 THEN m1n + qr[1]
           ELSE IF qr[2] = 0 THEN m1n - qr[1] ELSE m1n - qr[1] - 1
  IN int_of_float(t, qr[2] # 0, 2 * sd, FALSE)

\* the values int(r*255), int(g*255), int(b*255) can take for
\* r, g, b = colorsys.hls_to_rgb(h, l, s)
hls_to_rgb_255(hn, hd, ln, sn, sd) ==
  IF sn = 0
  THEN {<<k, k, k>> : k \in int_of_float(ln, FALSE, 2, ln \in {0, LDen})}
  ELSE LET m2n == IF 2 * ln <= LDen THEN ln * (sd + sn)
                  ELSE ln * sd + LDen * sn - ln * sn
           m1n == 2 * ln * sd - m2n
           b == m2n - m1n
       IN v_times_255(m1n, b, sd, hn + (hd \div 3), hd)
            \X v_times_255(m1n, b, sd, hn, hd)
            \X v_times_255(m1n, b, sd, hn - (hd \div 3), hd)

format_hex(rgb) ==
  <<"#">> \o format_02x(rgb[1]) \o format_02x(rgb[2]) \o format_02x(rgb[3])

\* the strings hsl_to_hex(h, l, s) can return
hsl_to_hex(hn, hd, ln, sn, sd) ==
  {format_hex(rgb) : rgb \in hls_to_rgb_255(hn, hd, ln, sn, sd)}

(***************************************************************************)
(* The store of beauty_profiles.json and the return value of a call.       *)
(***************************************************************************)
EmptyStore == [u \in {} |-> {}]

NoResult == [kind |-> "none"]

Return(v) == [kind |-> "return", value |-> v]

(***************************************************************************)
(* The game-lookup server (mcp_server.py) at its start: the API key is      *)
(* configured or not, the log rawg_conversation is empty and no request     *)
(* has been sent to the RAWG API.  The tools of the beauty server leave it  *)
(* as it is.                                                                *)
(***************************************************************************)
RawgStart(key_configured) ==
  [RAWG_API_KEY |-> key_configured, rawg_conversation |-> <<>>, requests |-> <<>>]

(***************************************************************************)
(* analyze_undertone called on every combination of its inputs.            *)
(***************************************************************************)
UndertoneCalls ==
  [op : {"analyze_undertone"},
   vein_color : VeinColors \cup {Unknown},
   jewelry_preference : JewelryPreferences \cup {Unknown},
   sun_reaction : SunReactions \cup {Unknown},
   natural_lip_color : LipColors \cup {Unknown}]

InitUndertone ==
  /\ seasons = SEASONS
  /\ profiles = EmptyStore
  /\ palettes = EmptyStore
  /\ rawg = RawgStart(TRUE)
  /\ call \in UndertoneCalls
  /\ result = NoResult

CallAnalyzeUndertone ==
  /\ call.op = "analyze_undertone"
  /\ result = NoResult
  /\ result' = Return(analyze_undertone(call.vein_color, call.jewelry_preference,
                                        call.sun_reaction, call.natural_lip_color))
  /\ UNCHANGED <<seasons, profiles, palettes, call, rawg>>

NextUndertone == CallAnalyzeUndertone

SpecUndertone == InitUndertone /\ [][NextUndertone]_vars

(***************************************************************************)
(* determine_season called on every combination of its inputs.             *)
(***************************************************************************)
EyeColors ==
  {"azul", "verde", "cafe", "gris", "avellana", "negro", "miel", "azul_gris",
   "verde_gris"}

HairColors ==
  {"rubio_platino", "rubio", "rubio_cenizo", "castano_claro", "castano",
   "castano_oscuro", "negro", "pelirrojo_claro", "pelirrojo", "pelirrojo_oscuro",
   "gris", "blanco", "castaño_dorado", "rubio_dorado"}

SeasonCalls ==
  [op : {"determine_season"},
   skin_tone : SkinTones \cup {Unknown},
   undertone : Undertones \cup {Unknown},
   eye_color : EyeColors,
   hair_color : HairColors,
   contrast_level : ContrastLevels \cup {Unknown}]

InitSeason ==
  /\ seasons = SEASONS
  /\ profiles = EmptyStore
  /\ palettes = EmptyStore
  /\ rawg = RawgStart(TRUE)
  /\ call \in SeasonCalls
  /\ result = NoResult

CallDetermineSeason ==
  /\ call.op = "determine_season"
  /\ result = NoResult
  /\ result' = Return(determine_season(call.skin_tone, call.undertone, call.eye_color,
                                       call.hair_color, call.contrast_level))
  /\ UNCHANGED <<seasons, profiles, palettes, call, rawg>>

NextSeason == CallDetermineSeason

SpecSeason == InitSeason /\ [][NextSeason]_vars

(***************************************************************************)
(* ColorAnalyzer.generate_harmony_palette                                  *)
(***************************************************************************)
Schemes == {"complementary", "analogous", "triadic", "split_complementary"}

hue_add_unwrapped(hn, hd, off) == hn + off * (hd \div HueThousandths)

\* (h + off / 1000) % 1.0
hue_add(hn, hd, off) == (hn + off * (hd \div HueThousandths)) % hd

comp_offset_quarter == 250

comp_offset == 500

\* the hues of the colours a scheme derives from the seed, in list order
scheme_hues(harmony_type, hn, hd) ==
  LET comp_h == hue_add(hn, hd, comp_offset)
  IN CASE harmony_type = "complementary" -> <<comp_h>>
       [] harmony_type = "analogous" ->
            <<hue_add(hn, hd, 83), hue_add(hn, hd, -83)>>
       [] harmony_type = "triadic" ->
            <<hue_add(hn, hd, 333), hue_add(hn, hd, 667)>>
       [] harmony_type = "split_complementary" ->
            <<hue_add(comp_h, hd, 83), hue_add(comp_h, hd, -83)>>
       [] OTHER -> <<>>

\* every sequence that takes its i-th element from the i-th set
RECURSIVE Choices(_)
Choices(sets) ==
  IF Len(sets) = 0 THEN {<<>>}
  ELSE {<<x>> \o rest : x \in Head(sets), rest \in Choices(Tail(sets))}

\* every concatenation that takes its i-th part from the i-th set
RECURSIVE Concats(_)
Concats(sets) ==
  IF Len(sets) = 0 THEN {<<>>}
  ELSE {x \o rest : x \in Head(sets), rest \in Concats(Tail(sets))}

\* the (h, l, s) arguments of the hsl_to_hex calls of the scheme step, in list
\* order: the derived hue with the l and s of the seed
scheme_args(base_hex, harmony_type) ==
  LET c == hex_to_hsl(base_hex)
      hues == scheme_hues(harmony_type, c.hn, c.hd)
  IN [i \in 1..Len(hues) |->
        [hn |-> hues[i], hd |-> c.hd, ln |-> c.ln, sn |-> c.sn, sd |-> c.sd]]

\* the lists harmonies can be after the scheme step
harmonies_of(base_hex, harmony_type) ==
  LET args == scheme_args(base_hex, harmony_type)
  IN IF harmony_type \notin Schemes THEN {<<>>}
     ELSE {<<base_hex>> \o derived :
             derived \in Choices([i \in 1..Len(args) |->
                                    hsl_to_hex(args[i].hn, args[i].hd, args[i].ln,
                                               args[i].sn, args[i].sd)])}

lighter_unclamped(ln) == ln + LightnessStep

\* min(l + 0.2, 1.0)
lighter(ln) == Min(ln + LightnessStep, LDen)

\* max(l - 0.2, 0.0)
darker(ln) == Max(ln - LightnessStep, 0)

\* the three entries the variation loop appends for one colour
variants_of(color) ==
  LET c == hex_to_hsl(color)
  IN {<<color, light, dark>> :
        light \in hsl_to_hex(c.hn, c.hd, lighter(c.ln), c.sn, c.sd),
        dark \in hsl_to_hex(c.hn, c.hd, darker(c.ln), c.sn, c.sd)}

Range(s) == {s[i] : i \in 1..Len(s)}

Raise(e) == [kind |-> "raise", error |-> e]

\* the return value list(set(variations)) is kept as the set of its entries:
\* the order of the list is the iteration order of the set.  The locals
\* harmonies and variations and the arguments of the scheme step are recorded
\* beside it.
harmony_return(harmonies, variations, args) ==
  [kind |-> "return", value |-> Range(variations),
   harmonies |-> harmonies, variations |-> variations, scheme_args |-> args]

no_base_colors_skipped(base_colors) == FALSE

\* not base_colors
no_base_colors(base_colors) == Len(base_colors) = 0

base_hex_last(base_colors) == base_colors[Len(base_colors)]

\* base_hex = base_colors[0]
base_hex(base_colors) == base_colors[1]

\* the outcomes of generate_harmony_palette(base_colors, harmony_type)
generate_harmony_palette(base_colors, harmony_type) ==
  IF no_base_colors(base_colors) THEN {harmony_return(<<>>, <<>>, <<>>)}
  ELSE IF Len(base_colors) = 0 THEN {Raise("IndexError")}
  ELSE IF ~hex_ok(base_hex(base_colors)) THEN {Raise("ValueError")}
  ELSE UNION {
         IF \E i \in 1..Len(harmonies) : ~hex_ok(harmonies[i])
         THEN {Raise("ValueError")}
         ELSE {harmony_return(harmonies, variations,
                              scheme_args(base_hex(base_colors), harmony_type)) :
                 variations \in Concats([i \in 1..Len(harmonies) |->
                                           variants_of(harmonies[i])])}
         : harmonies \in harmonies_of(base_hex(base_colors), harmony_type)}

(***************************************************************************)
(* generate_harmony_palette called on base colour lists of bounded length. *)
(***************************************************************************)
MaxBase == 2

\* seeds: white, black, a grey, the first best colour of three seasons (one
\* written in lower case without '#'), a 3-digit string and a non-hex string
SeedColors ==
  {<<"#","F","F","F","F","F","F">>,
   <<"#","0","0","0","0","0","0">>,
   <<"#","8","0","8","0","8","0">>,
   <<"#","B","0","C","4","D","E">>,
   <<"#","8","B","4","5","1","3">>,
   <<"4","1","6","9","e","1">>,
   <<"#","F","F","F">>,
   <<"#","G","G","0","0","0","0">>}

\* the elements that follow the seed in base_colors
TailColors ==
  {<<"#","0","0","0","0","0","0">>,
   <<"#","G","G","0","0","0","0">>}

Tails == UNION {[1..n -> TailColors] : n \in 0..(MaxBase - 1)}

BaseColorLists == {<<>>} \cup {<<seed>> \o tail : seed \in SeedColors, tail \in Tails}

Red == <<"#","F","F","0","0","0","0">>

\* every scheme and an unknown one on BaseColorLists, and the complementary
\* scheme on pure red
HarmonyCalls ==
  [op : {"generate_harmony_palette"},
   base_colors : BaseColorLists,
   harmony_type : Schemes \cup {Unknown}]
  \cup
  [op : {"generate_harmony_palette"},
   base_colors : {<<Red>> \o tail : tail \in Tails},
   harmony_type : {"complementary"}]

InitHarmony ==
  /\ seasons = SEASONS
  /\ profiles = EmptyStore
  /\ palettes = EmptyStore
  /\ rawg = RawgStart(TRUE)
  /\ call \in HarmonyCalls
  /\ result = NoResult

CallGenerateHarmonyPalette ==
  /\ call.op = "generate_harmony_palette"
  /\ result = NoResult
  /\ result' \in generate_harmony_palette(call.base_colors, call.harmony_type)
  /\ UNCHANGED <<seasons, profiles, palettes, call, rawg>>

NextHarmony == CallGenerateHarmonyPalette

SpecHarmony == InitHarmony /\ [][NextHarmony]_vars

(***************************************************************************)
(* hex_to_hsl called on strings of bounded length, and hsl_to_hex called    *)
(* on what it returns.                                                      *)
(***************************************************************************)
MaxPairs == 3

\* two-character pieces: channel values 0x33, 0x66, 0x99, 0xFF, 0x00, 0xb0
\* and a piece that is no hexadecimal number
HexPairs ==
  {<<"3","3">>, <<"6","6">>, <<"9","9">>, <<"F","F">>, <<"0","0">>, <<"b","0">>,
   <<"G","G">>}

RECURSIVE PairSeqs(_)
PairSeqs(n) ==
  IF n = 0 THEN {<<>>}
  ELSE {pair \o rest : pair \in HexPairs, rest \in PairSeqs(n - 1)}

\* no, one or two '#', then up to MaxPairs pieces, then no or one more digit
HexInputs ==
  {hashes \o body \o extra :
     hashes \in {<<>>, <<"#">>, <<"#","#">>},
     body \in UNION {PairSeqs(n) : n \in 0..MaxPairs},
     extra \in {<<>>, <<"F">>}}

HexCalls == [op : {"hex_to_hsl"}, hex_color : HexInputs]

InitHex ==
  /\ seasons = SEASONS
  /\ profiles = EmptyStore
  /\ palettes = EmptyStore
  /\ rawg = RawgStart(TRUE)
  /\ call \in HexCalls
  /\ result = NoResult

CallHexToHsl ==
  /\ call.op = "hex_to_hsl"
  /\ result = NoResult
  /\ result' = IF hex_ok(call.hex_color) THEN Return(hex_to_hsl(call.hex_color))
                ELSE Raise("ValueError")
  /\ UNCHANGED <<seasons, profiles, palettes, call, rawg>>

\* hsl_to_hex(*hex_to_hsl(hex_color))
CallHslToHex ==
  /\ call.op = "hex_to_hsl"
  /\ result.kind = "return"
  /\ call' = [op |-> "hsl_to_hex", hex_color |-> call.hex_color, hsl |-> result.value]
  /\ \E s \in hsl_to_hex(result.value.hn, result.value.hd, result.value.ln,
                          result.value.sn, result.value.sd) :
       result' = Return(s)
  /\ UNCHANGED <<seasons, profiles, palettes, rawg>>

NextHex == CallHexToHsl \/ CallHslToHex

SpecHex == InitHex /\ [][NextHex]_vars

(***************************************************************************)
(* The palette helpers of the server.  Record fields keep the keys of the   *)
(* source dictionaries, except "pañuelos_bufandas", written                 *)
(* panuelos_bufandas.                                                       *)
(***************************************************************************)
\* season_info["name"].split()[0].lower()
season_word(name) ==
  CASE name \in {"Primavera Cálida", "Primavera Clara"} -> "primavera"
    [] name \in {"Verano Suave", "Verano Frío"} -> "verano"
    [] name \in {"Otoño Suave", "Otoño Profundo"} -> "otoño"
    [] name \in {"Invierno Profundo", "Invierno Brillante"} -> "invierno"
    [] OTHER -> name

determine_foundation_shade(season_info) ==
  LET base_mapping ==
        [primavera |-> <<"#","F","5","D","E","B","3">>, verano |-> <<"#","F","0","F","0","F","0">>,
         otono |-> <<"#","D","E","B","8","8","7">>, invierno |-> <<"#","F","F","E","4","E","1">>]
  IN Get(base_mapping, season_word(season_info.name), <<"#","F","5","D","E","B","3">>)

\* the strings lighten_color(hex_color) can return, factor = 0.3:
\* min(255, int(c + (255 - c) * 0.3)) for each channel c, and "#FFFFFF" when
\* the string does not parse
lighten_color(hex_color) ==
  IF ~hex_ok(hex_color) THEN {<<"#","F","F","F","F","F","F">>}
  ELSE LET c == hex_channels(hex_color)
           lighten(i) ==
             {Min(ChannelMax, k) :
                k \in int_of_float(10 * c[i] + 3 * (ChannelMax - c[i]), FALSE, 10, FALSE)}
       IN {format_hex(<<r, g, b>>) : r \in lighten(1), g \in lighten(2), b \in lighten(3)}

get_neutral_colors(season_info) ==
  LET neutral_mapping ==
        [primavera |-> <<<<"#","F","5","F","5","D","C">>, <<"#","D","E","B","8","8","7">>, <<"#","D","2","B","4","8","C">>>>,
         verano |-> <<<<"#","F","8","F","8","F","F">>, <<"#","E","6","E","6","F","A">>, <<"#","D","3","D","3","D","3">>>>,
         otono |-> <<<<"#","F","4","A","4","6","0">>, <<"#","D","2","B","4","8","C">>, <<"#","A","0","5","2","2","D">>>>,
         invierno |-> <<<<"#","F","F","F","F","F","F">>, <<"#","0","0","0","0","0","0">>, <<"#","8","0","8","0","8","0">>>>]
  IN Get(neutral_mapping, season_word(season_info.name),
         <<<<"#","F","F","F","F","F","F">>, <<"#","0","0","0","0","0","0">>, <<"#","8","0","8","0","8","0">>>>)

generate_clothing_combinations(colors, event_type) ==
  IF Len(colors) < 2 THEN <<>>
  ELSE <<[superior |-> colors[1], inferior |-> colors[2],
          descripcion |-> "Combinación armónica principal"],
         [superior |-> colors[2], inferior |-> colors[1],
          descripcion |-> "Combinación armónica invertida"]>>
       \o (IF Len(colors) > 2
           THEN <<[superior |-> colors[1], inferior |-> colors[3],
                   descripcion |-> "Combinación con contraste"]>>
           ELSE <<>>)

get_recommended_stones(season_info, colors) ==
  LET stone_mapping ==
        [primavera |-> <<"Topacio", "Peridoto", "Aguamarina">>,
         verano |-> <<"Perla", "Amatista", "Agua marina">>,
         otono |-> <<"Ámbar", "Granate", "Topacio dorado">>,
         invierno |-> <<"Diamante", "Rubí", "Zafiro">>]
  IN Get(stone_mapping, season_word(season_info.name), <<"Cuarzo", "Perla">>)

get_recommended_textures(season_info) ==
  LET texture_mapping ==
        [primavera |-> <<"Algodón ligero", "Lino", "Seda">>,
         verano |-> <<"Chiffon", "Organza", "Algodón suave">>,
         otono |-> <<"Tweed", "Terciopelo", "Lana">>,
         invierno |-> <<"Satén", "Cuero", "Cachemira">>]
  IN Get(texture_mapping, season_word(season_info.name), <<"Algodón", "Poliéster">>)

get_makeup_technique(season_info, event_type) ==
  IF season_info.contrast = "alto"
  THEN "Maquillaje con contrastes definidos, colores intensos"
  ELSE IF season_info.saturation = "alta"
  THEN "Colores vibrantes, difuminados suaves"
  ELSE "Maquillaje suave, técnica de difuminado natural"

event_intensities ==
  [casual |-> [intensity |-> "suave", colors_count |-> 4],
   trabajo |-> [intensity |-> "profesional", colors_count |-> 3],
   formal |-> [intensity |-> "elegante", colors_count |-> 5],
   fiesta |-> [intensity |-> "vibrante", colors_count |-> 6],
   noche |-> [intensity |-> "dramatica", colors_count |-> 6],
   playa |-> [intensity |-> "natural", colors_count |-> 3]]

lip_alternative_second(base_colors) ==
  IF Len(base_colors) > 1 THEN base_colors[2] ELSE <<"#","F","F","B","6","C","1">>

\* base_colors[-2] if len(base_colors) > 1 else "#FFB6C1"
lip_alternative(base_colors) ==
  IF Len(base_colors) > 1 THEN base_colors[Len(base_colors) - 1] ELSE <<"#","F","F","B","6","C","1">>

\* the palettes generate_makeup_palette can return: one for each string
\* lighten_color can return
generate_makeup_palette(base_colors, season_info, event_type) ==
  LET n == Len(base_colors)
      event_config == Get(event_intensities, event_type, event_intensities["casual"])
  IN {[ojos |->
         [sombras_principales |-> Slice(base_colors, 0, 2),
          sombra_iluminadora |-> IF n > 2 THEN base_colors[3] ELSE <<"#","F","F","F","F","F","F">>,
          delineador |-> IF season_info.contrast = "alto" THEN <<"#","0","0","0","0","0","0">>
                         ELSE <<"#","8","B","4","5","1","3">>],
       rostro |->
         [base |-> determine_foundation_shade(season_info),
          rubor |-> IF n > 1 THEN base_colors[2] ELSE <<"#","F","F","B","6","C","1">>,
          iluminador |-> iluminador],
       labios |->
         [color_principal |-> IF n > 0 THEN base_colors[n] ELSE <<"#","F","F","6","9","B","4">>,
          alternativo |-> lip_alternative(base_colors)],
       recomendaciones |->
         [intensidad |-> event_config.intensity,
          ocasion |-> event_type,
          tecnica |-> get_makeup_technique(season_info, event_type)]]
      : iluminador \in (IF n > 0 THEN lighten_color(base_colors[1]) ELSE {<<"#","F","0","F","8","F","F">>})}

generate_clothing_palette(base_colors, season_info, event_type) ==
  [colores_principales |-> Slice(base_colors, 0, 3),
   colores_neutros |-> get_neutral_colors(season_info),
   colores_accent |-> IF Len(base_colors) > 3
                      THEN Slice(base_colors, 3, Len(base_colors)) ELSE <<>>,
   combinaciones_recomendadas |-> generate_clothing_combinations(base_colors, event_type),
   texturas_recomendadas |-> get_recommended_textures(season_info),
   estilos |->
     [ocasion |-> event_type,
      temperatura_color |-> season_info.temperature,
      saturacion |-> season_info.saturation]]

generate_accessories_palette(base_colors, season_info, event_type) ==
  LET metal_preference == IF season_info.temperature = "calido" THEN "oro" ELSE "plata"
  IN [joyeria |->
        [metal_principal |-> metal_preference,
         piedras_recomendadas |-> get_recommended_stones(season_info, base_colors)],
      bolsos_zapatos |->
        [colores_versatiles |-> get_neutral_colors(season_info),
         colores_statement |-> Slice(base_colors, 0, 2)],
      panuelos_bufandas |-> base_colors,
      recomendaciones |->
        [contraste |-> season_info.contrast,
         estilo_ocasion |-> event_type]]

(***************************************************************************)
(* generate_makeup_palette called on lists of bounded length.               *)
(***************************************************************************)
MaxColors == 6

\* two colours, and a string that is no colour
MakeupColors == {<<"#","F","F","6","B","3","5">>, <<"#","4","1","6","9","E","1">>, <<"r","o","j","o">>}

RECURSIVE ColorLists(_)
ColorLists(n) ==
  IF n = 0 THEN {<<>>}
  ELSE {<<c>> \o rest : c \in MakeupColors, rest \in ColorLists(n - 1)}

\* a season of high contrast and one of low contrast
MakeupSeasons == {"invierno_profundo", "verano_suave"}

MakeupEvents == {"casual", "noche", Unknown}

MakeupCalls ==
  [op : {"generate_makeup_palette"},
   base_colors : UNION {ColorLists(n) : n \in 0..MaxColors},
   season : MakeupSeasons,
   event_type : MakeupEvents]

InitMakeup ==
  /\ seasons = SEASONS
  /\ profiles = EmptyStore
  /\ palettes = EmptyStore
  /\ rawg = RawgStart(TRUE)
  /\ call \in MakeupCalls
  /\ result = NoResult

CallGenerateMakeupPalette ==
  /\ call.op = "generate_makeup_palette"
  /\ result = NoResult
  /\ \E palette \in generate_makeup_palette(call.base_colors, seasons[call.season],
                                             call.event_type) :
       result' = Return(palette)
  /\ UNCHANGED <<seasons, profiles, palettes, call, rawg>>

NextMakeup == CallGenerateMakeupPalette

SpecMakeup == InitMakeup /\ [][NextMakeup]_vars

(***************************************************************************)
(* The profile tools of the server.  The store is the content of           *)
(* beauty_profiles.json: every tool loads it, and saves it after a change. *)
(* Timestamps (created_at) are left out of the records.                    *)
(***************************************************************************)
MaxUsers == 2

\* the number of palettes the store can hold, over all users
MaxPalettes == 2

Users == 1..MaxUsers

required_fields ==
  <<"user_id", "name", "skin_tone", "vein_color", "jewelry_preference",
    "sun_reaction", "eye_color", "hair_color", "natural_lip_color", "contrast_level">>

Error(code, detail) == [error |-> code, detail |-> detail]

\* the first required field that args lacks, 0 when there is none
first_missing(args) ==
  IF \A i \in 1..Len(required_fields) : required_fields[i] \in DOMAIN args THEN 0
  ELSE CHOOSE i \in 1..Len(required_fields) :
         /\ required_fields[i] \notin DOMAIN args
         /\ \A j \in 1..(i - 1) : required_fields[j] \in DOMAIN args

undertone_for_season_from_args(args, undertone_analysis) ==
  Get(args, "undertone", undertone_analysis.undertone)

\* the undertone handed to determine_season
undertone_for_season(args, undertone_analysis) == undertone_analysis.undertone

\* the profile record tool_create_profile builds from args
new_profile(args) ==
  LET undertone_analysis ==
        analyze_undertone(args["vein_color"], args["jewelry_preference"],
                          args["sun_reaction"], args["natural_lip_color"])
      season_analysis ==
        determine_season(args["skin_tone"],
                         undertone_for_season(args, undertone_analysis),
                         args["eye_color"], args["hair_color"], args["contrast_level"])
  IN [basic_info |-> [user_id |-> args["user_id"], name |-> args["name"]],
      physical_characteristics |->
        [skin_tone |-> args["skin_tone"],
         vein_color |-> args["vein_color"],
         eye_color |-> args["eye_color"],
         hair_color |-> args["hair_color"],
         natural_lip_color |-> args["natural_lip_color"],
         contrast_level |-> args["contrast_level"]],
      preferences |->
        [jewelry_preference |-> args["jewelry_preference"],
         sun_reaction |-> args["sun_reaction"],
         style_preference |-> Get(args, "style_preference", "moderno")],
      color_analysis |->
        [undertone_analysis |-> undertone_analysis,
         season_analysis |-> season_analysis,
         recommended_colors |-> season_analysis.season_info.best_colors,
         colors_to_avoid |-> season_analysis.season_info.avoid_colors]]

\* the store is replaced by one that holds the new entry only
Put_alone(store, k, v) == [x \in {k} |-> v]

Put(store, k, v) == [x \in DOMAIN store \cup {k} |-> IF x = k THEN v ELSE store[x]]

\* the deletion is not saved
Remove_unsaved(store, k) == store

Remove(store, k) == [x \in DOMAIN store \ {k} |-> store[x]]

Without(args, field) == [k \in DOMAIN args \ {field} |-> args[k]]

\* the user the properties read from a call; 0 when args has no user_id
CallOf(op, args) == [op |-> op, user_id |-> Get(args, "user_id", 0)]

tool_create_profile(args) ==
  /\ call' = CallOf("create_profile", args)
  /\ IF first_missing(args) # 0
     THEN /\ result' = Return(Error("campo_requerido_faltante",
                                    required_fields[first_missing(args)]))
          /\ UNCHANGED <<seasons, profiles, palettes, rawg>>
     ELSE IF args["user_id"] \in DOMAIN profiles
     THEN /\ result' = Return(Error("ya_existe", args["user_id"]))
          /\ UNCHANGED <<seasons, profiles, palettes, rawg>>
     ELSE LET profile == new_profile(args)
          IN /\ profiles' = Put(profiles, args["user_id"], profile)
             /\ result' = Return(
                  [success |-> TRUE,
                   profile |-> profile,
                   color_analysis_summary |->
                     [subtono |-> profile.color_analysis.undertone_analysis.undertone,
                      confianza_subtono |->
                        profile.color_analysis.undertone_analysis.confidence,
                      estacion |-> profile.color_analysis.season_analysis.season_info.name,
                      caracteristicas_estacion |->
                        profile.color_analysis.season_analysis.season_info.characteristics,
                      explicacion |-> profile.color_analysis.season_analysis.reasoning]])
             /\ UNCHANGED <<seasons, palettes, rawg>>

tool_show_profile(args) ==
  /\ call' = CallOf("show_profile", args)
  /\ result' =
       IF "user_id" \notin DOMAIN args THEN Return(Error("se_requiere_user_id", 0))
       ELSE IF args["user_id"] \notin DOMAIN profiles
       THEN Return(Error("no_encontrado", args["user_id"]))
       ELSE Return([success |-> TRUE, profile |-> profiles[args["user_id"]]])
  /\ UNCHANGED <<seasons, profiles, palettes, rawg>>

\* the summaries are kept as a set: their order in the list is the order of
\* the keys in the stored document
tool_list_profiles ==
  /\ call' = [op |-> "list_profiles", user_id |-> 0]
  /\ result' =
       IF DOMAIN profiles = {}
       THEN Return([success |-> TRUE, message |-> "No hay perfiles creados",
                    profiles |-> {}])
       ELSE Return(
              [success |-> TRUE,
               total_profiles |-> Cardinality(DOMAIN profiles),
               profiles |->
                 {[user_id |-> u,
                   name |-> profiles[u].basic_info.name,
                   skin_tone |-> profiles[u].physical_characteristics.skin_tone,
                   undertone |-> profiles[u].color_analysis.undertone_analysis.undertone,
                   season |-> profiles[u].color_analysis.season_analysis.season_info.name]
                  : u \in DOMAIN profiles}])
  /\ UNCHANGED <<seasons, profiles, palettes, rawg>>

tool_delete_profile(args) ==
  /\ call' = CallOf("delete_profile", args)
  /\ IF "user_id" \notin DOMAIN args
     THEN /\ result' = Return(Error("se_requiere_user_id", 0))
          /\ UNCHANGED <<seasons, profiles, palettes, rawg>>
     ELSE IF args["user_id"] \notin DOMAIN profiles
     THEN /\ result' = Return(Error("no_encontrado", args["user_id"]))
          /\ UNCHANGED <<seasons, profiles, palettes, rawg>>
     ELSE /\ profiles' = Remove(profiles, args["user_id"])
          /\ result' = Return([success |-> TRUE, deleted |-> args["user_id"]])
          /\ UNCHANGED <<seasons, palettes, rawg>>

(***************************************************************************)
(* The arguments the tools are called with.                                *)
(***************************************************************************)
ProfileVeinColors == {"verde", "azul"}

ProfileHairColors == {"rubio", "castano"}

ProfileContrastLevels == {"bajo", "alto"}

ProfileArgs ==
  [user_id : Users, name : {"Ana"}, skin_tone : {"clara"},
   vein_color : ProfileVeinColors, jewelry_preference : {"oro"},
   sun_reaction : {"broncea_facil"}, eye_color : {"azul"},
   hair_color : ProfileHairColors, natural_lip_color : {"durazno"},
   contrast_level : ProfileContrastLevels]

\* the profile of the end-to-end scenario
ScenarioArgs(u) ==
  [user_id |-> u, name |-> "Ana", skin_tone |-> "clara", vein_color |-> "verde",
   jewelry_preference |-> "oro", sun_reaction |-> "broncea_facil",
   eye_color |-> "azul", hair_color |-> "rubio", natural_lip_color |-> "durazno",
   contrast_level |-> "bajo"]

\* an undertone key the schema does not have, with a value neither vein
\* colour of ProfileVeinColors leads to
ExtraUndertones == {"neutro"}

\* complete arguments, alone or with an undertone key, and the scenario's
\* arguments with one required field left out
CreateArgs ==
  ProfileArgs
    \cup {a @@ [undertone |-> t] : a \in ProfileArgs, t \in ExtraUndertones}
    \cup {Without(ScenarioArgs(1), required_fields[i]) : i \in 1..Len(required_fields)}

UserArgs == {[user_id |-> u] : u \in Users} \cup {<<>>}

Init ==
  /\ seasons = SEASONS
  /\ profiles = EmptyStore
  /\ palettes = EmptyStore
  /\ rawg = RawgStart(TRUE)
  /\ call = [op |-> "none", user_id |-> 0]
  /\ result = NoResult

CreateProfile == \E args \in CreateArgs : tool_create_profile(args)

ShowProfile == \E args \in UserArgs : tool_show_profile(args)

ListProfiles == tool_list_profiles

DeleteProfile == \E args \in UserArgs : tool_delete_profile(args)

Next == CreateProfile \/ ShowProfile \/ ListProfiles \/ DeleteProfile

Spec == Init /\ [][Next]_vars

(***************************************************************************)
(* The palette tools of the server.  Timestamps (generated_at,              *)
(* exported_at, profile_created) are left out of the records.               *)
(***************************************************************************)
PaletteTypes == {"maquillaje", "ropa", "accesorios"}

\* the palettes the branch of palette_type can build
main_palette(palette_type, base_colors, season_info, event_type) ==
  CASE palette_type = "maquillaje" ->
         generate_makeup_palette(base_colors, season_info, event_type)
    [] palette_type = "ropa" ->
         {generate_clothing_palette(base_colors, season_info, event_type)}
    [] palette_type = "accesorios" ->
         {generate_accessories_palette(base_colors, season_info, event_type)}

HarmonyLimit == 8

\* harmony_palette[:8], harmony_palette being a list of the colours of value
\* in the iteration order of a set: the colours it can hold
first_colors(value) ==
  IF Cardinality(value) <= HarmonyLimit THEN {value}
  ELSE {kept \in SUBSET value : Cardinality(kept) = HarmonyLimit}

\* a triadic harmony, passed on whole
harmony_colors_triadic_whole(base_colors) ==
  {IF harmony.kind = "raise" THEN harmony ELSE Return(harmony.value) :
     harmony \in generate_harmony_palette(base_colors, "triadic")}

\* what the harmony step of generate_palette gives: the exception of
\* generate_harmony_palette(base_colors, "complementary"), or the colours
\* harmony_palette[:8] of its return value
harmony_colors_of(base_colors) ==
  UNION {IF harmony.kind = "raise" THEN {harmony}
         ELSE {Return(kept) : kept \in first_colors(harmony.value)} :
           harmony \in generate_harmony_palette(base_colors, "complementary")}

\* the history of a user is started again at every call
palettes_of_fresh(user_id) == <<>>

\* the palettes of a user, [] when the user has none
palettes_of(user_id) == Get(palettes, user_id, <<>>)

RECURSIVE total_palettes(_)
total_palettes(users) ==
  IF users = {} THEN 0
  ELSE LET u == CHOOSE x \in users : TRUE
       IN Len(palettes[u]) + total_palettes(users \ {u})

\* the first of user_id, palette_type that args lacks, "" when it has both
generate_missing(args) ==
  IF "user_id" \notin DOMAIN args THEN "user_id"
  ELSE IF "palette_type" \notin DOMAIN args THEN "palette_type"
  ELSE ""

palette_result_of(args, season_info, palette, harmony_colors) ==
  [user_id |-> args["user_id"],
   palette_type |-> args["palette_type"],
   event_type |-> Get(args, "event_type", "casual"),
   base_season |-> season_info.name,
   main_palette |-> palette,
   harmony_colors |-> harmony_colors,
   color_theory |->
     [temperature |-> season_info.temperature,
      saturation |-> season_info.saturation,
      contrast |-> season_info.contrast,
      explanation |-> season_info.characteristics]]

tool_generate_palette(args) ==
  /\ call' = [op |-> "generate_palette", user_id |-> Get(args, "user_id", 0),
              palette_type |-> Get(args, "palette_type", "")]
  /\ IF generate_missing(args) # ""
     THEN /\ result' = Return(Error("campo_requerido_faltante", generate_missing(args)))
          /\ UNCHANGED <<seasons, profiles, palettes, rawg>>
     ELSE IF args["user_id"] \notin DOMAIN profiles
     THEN /\ result' = Return(Error("no_encontrado", args["user_id"]))
          /\ UNCHANGED <<seasons, profiles, palettes, rawg>>
     ELSE IF args["palette_type"] \notin PaletteTypes
     THEN /\ result' = Return(Error("tipo_de_paleta_no_valido", args["palette_type"]))
          /\ UNCHANGED <<seasons, profiles, palettes, rawg>>
     ELSE LET season_info ==
                profiles[args["user_id"]].color_analysis.season_analysis.season_info
              base_colors == season_info.best_colors
              event_type == Get(args, "event_type", "casual")
          IN \E palette \in main_palette(args["palette_type"], base_colors,
                                         season_info, event_type),
                harmony \in harmony_colors_of(base_colors) :
               IF harmony.kind = "raise"
               THEN /\ result' = Return(Error("error_generando_paleta", harmony.error))
                    /\ UNCHANGED <<seasons, profiles, palettes, rawg>>
               ELSE LET palette_result ==
                          palette_result_of(args, season_info, palette, harmony.value)
                    IN /\ total_palettes(DOMAIN palettes) < MaxPalettes
                       /\ palettes' = Put(palettes, args["user_id"],
                                          Append(palettes_of(args["user_id"]),
                                                 palette_result))
                       /\ result' = Return([success |-> TRUE,
                                            palette |-> palette_result])
                       /\ UNCHANGED <<seasons, profiles, rawg>>

\* the simplified mapping of quick_palette, keyed by skin tone and undertone:
\* the contrast part of the key is always medio
season_mapping ==
  [k \in {"clara", "media", "oscura"} \X {"frio", "calido", "neutro"} \X {"medio"} |->
     CASE k = <<"clara", "frio", "medio">> -> "verano_frio"
       [] k = <<"clara", "calido", "medio">> -> "primavera_calida"
       [] k = <<"clara", "neutro", "medio">> -> "verano_suave"
       [] k = <<"media", "frio", "medio">> -> "verano_frio"
       [] k = <<"media", "calido", "medio">> -> "otono_suave"
       [] k = <<"media", "neutro", "medio">> -> "verano_suave"
       [] k = <<"oscura", "frio", "medio">> -> "invierno_profundo"
       [] k = <<"oscura", "calido", "medio">> -> "otono_profundo"
       [] k = <<"oscura", "neutro", "medio">> -> "invierno_profundo"]

\* the palette of the else branch of quick_palette
generic_palette(best_colors) ==
  LET n == Len(best_colors)
  IN [primary |-> Slice(best_colors, 0, 3),
      secondary |-> IF n > 3 THEN Slice(best_colors, 3, 6) ELSE <<>>,
      accent |-> IF n > 2 THEN SubSeq(best_colors, n - 1, n) ELSE <<>>]

seasons_after_palette_popped(season) ==
  [seasons EXCEPT ![season].best_colors = SubSeq(@, 1, Len(@) - 1)]

\* the season table after a palette was built from the record of season: the
\* helpers read season_info and its best_colors list and write to neither
seasons_after_palette(season) == seasons

tool_quick_palette(args) ==
  LET palette_type == Get(args, "palette_type", "ropa")
      skin_tone == Get(args, "skin_tone", "media")
      undertone == Get(args, "undertone", "neutro")
      event_type == Get(args, "event_type", "casual")
      season == Get(season_mapping, <<skin_tone, undertone, "medio">>, "verano_suave")
      season_info == seasons[season]
      colors == IF palette_type \in PaletteTypes
                THEN main_palette(palette_type, season_info.best_colors,
                                  season_info, event_type)
                ELSE {generic_palette(season_info.best_colors)}
  IN /\ call' = [op |-> "quick_palette", user_id |-> 0, palette_type |-> palette_type,
                 skin_tone |-> skin_tone, undertone |-> undertone]
     /\ \E palette \in colors :
          result' = Return(
            [success |-> TRUE,
             palette |->
               [palette_type |-> palette_type,
                event_type |-> event_type,
                estimated_season |-> season_info.name,
                colors |-> palette,
                color_theory |->
                  [temperature |-> season_info.temperature,
                   saturation |-> season_info.saturation,
                   explanation |-> <<season_info.name, season_info.characteristics>>]]])
     /\ seasons' = seasons_after_palette(season)
     /\ UNCHANGED <<profiles, palettes, rawg>>

\* only the palette generated last
exported_palettes_latest(user_id) ==
  LET all == palettes_of(user_id)
  IN IF Len(all) = 0 THEN <<>> ELSE <<all[Len(all)]>>

\* data.get("palettes", {}).get(user_id, [])
exported_palettes(user_id) == palettes_of(user_id)

tool_export_data(args) ==
  /\ call' = CallOf("export_data", args)
  /\ result' =
       IF "user_id" \notin DOMAIN args THEN Return(Error("se_requiere_user_id", 0))
       ELSE IF args["user_id"] \notin DOMAIN profiles
       THEN Return(Error("no_encontrado", args["user_id"]))
       ELSE LET user_id == args["user_id"]
                export_data ==
                  [export_info |-> [user_id |-> user_id, version |-> "2.0"],
                   profile |-> profiles[user_id],
                   palettes |-> exported_palettes(user_id)]
            IN Return(
                 [success |-> TRUE,
                  exported_data |-> export_data,
                  summary |->
                    [total_palettes |-> Len(export_data.palettes),
                     color_season |->
                       profiles[user_id].color_analysis.season_analysis.season_info.name]])
  /\ UNCHANGED <<seasons, profiles, palettes, rawg>>

(***************************************************************************)
(* The seven tools of the server, on profiles of the season Invierno        *)
(* Profundo.                                                                *)
(***************************************************************************)
\* the users profiles are created for
PaletteUsers == {1, 2}

\* complete arguments whose profile is of the season invierno_profundo
PaletteProfileArgs ==
  [user_id : PaletteUsers, name : {"Ana"}, skin_tone : {"oscura"},
   vein_color : {"azul"}, jewelry_preference : {"plata"},
   sun_reaction : {"se_quema"}, eye_color : {"cafe"},
   hair_color : {"negro"}, natural_lip_color : {"rosado"},
   contrast_level : {"alto"}]

\* those arguments, and those of user 1 with the last required field left out
PaletteCreateArgs ==
  PaletteProfileArgs
    \cup {Without(a, "contrast_level") : a \in {b \in PaletteProfileArgs : b.user_id = 1}}

\* the palette types generate_palette is called with
GenerateTypes == {"maquillaje", Unknown}

GenerateArgs ==
  [user_id : Users, palette_type : GenerateTypes]
    \cup {[palette_type |-> "maquillaje"], [user_id |-> 1]}

QuickArgs ==
  {[palette_type |-> t] : t \in PaletteTypes \cup {Unknown}}
    \cup {<<>>,
          [palette_type |-> "accesorios", skin_tone |-> "oscura", undertone |-> "calido",
           event_type |-> "noche"]}

CreatePaletteProfile == \E args \in PaletteCreateArgs : tool_create_profile(args)

GeneratePalette == \E args \in GenerateArgs : tool_generate_palette(args)

QuickPalette == \E args \in QuickArgs : tool_quick_palette(args)

ExportData == \E args \in UserArgs : tool_export_data(args)

NextPalettes ==
  \/ CreatePaletteProfile
  \/ ShowProfile
  \/ ListProfiles
  \/ DeleteProfile
  \/ GeneratePalette
  \/ QuickPalette
  \/ ExportData

SpecPalettes == Init /\ [][NextPalettes]_vars

(***************************************************************************)
(* create_profile, generate_palette and export_data for one profile, whose  *)
(* season is Verano Suave: the harmony of its first best colour has six     *)
(* colours.                                                                 *)
(***************************************************************************)
SoftSummerArgs ==
  [user_id |-> 1, name |-> "Ana", skin_tone |-> "clara", vein_color |-> "azul",
   jewelry_preference |-> "plata", sun_reaction |-> "se_quema",
   eye_color |-> "azul", hair_color |-> "rubio", natural_lip_color |-> "rosado",
   contrast_level |-> "bajo"]

SoftSummerGenerateArgs == [user_id : {1}, palette_type : {"ropa", Unknown}]

CreateSoftSummerProfile == tool_create_profile(SoftSummerArgs)

GenerateSoftSummerPalette ==
  \E args \in SoftSummerGenerateArgs : tool_generate_palette(args)

NextGenerate ==
  \/ CreateSoftSummerProfile
  \/ GenerateSoftSummerPalette
  \/ ExportData

SpecGenerate == Init /\ [][NextGenerate]_vars

(***************************************************************************)
(* quick_palette called with every skin tone and undertone of its schema.   *)
(***************************************************************************)
QuickSeasonArgs ==
  [palette_type : PaletteTypes \cup {Unknown}, skin_tone : SkinTones,
   undertone : Undertones, event_type : {"casual", "trabajo", "noche"}]

NextQuick == \E args \in QuickSeasonArgs : tool_quick_palette(args)

SpecQuick == Init /\ [][NextQuick]_vars

(***************************************************************************)
(* The list tools of the game-lookup server.  A message is kept as the      *)
(* tuple of its parts, a request as its endpoint and its parameters (the    *)
(* key left out).                                                           *)
(***************************************************************************)
\* the number of entries of rawg_conversation from which no tool is called
MaxLog == 2

clamp_lower_only(page_size) == Max(page_size, 1)

\* min(max(page_size, 1), 20)
clamp(page_size) == Min(Max(page_size, 1), 20)

\* str.lower() on the arguments the tools are called with
lower(s) ==
  CASE s = "RPG" -> "rpg"
    [] OTHER -> s

log_message(conversation, role, content) ==
  Append(conversation, [role |-> role, content |-> content])

\* what rawg_fetch("games", params) can do: without a key it sends nothing;
\* with one it sends the request and gets a list of games (here of one
\* game), a document of another shape or an error of the request
rawg_fetch(params) ==
  IF ~rawg.RAWG_API_KEY
  THEN {[sent |-> <<>>, success |-> FALSE, data |-> "none"]}
  ELSE {[sent |-> <<[endpoint |-> "games", params |-> params]>>,
         success |-> outcome[1], data |-> outcome[2]] :
          outcome \in {<<TRUE, "one_game">>, <<TRUE, "other_shape">>,
                       <<FALSE, "none">>}}

\* the part the five list tools share: log the call, fetch, report
fetch_games(tool, arg, params) ==
  /\ Len(rawg.rawg_conversation) < MaxLog
  /\ \E response \in rawg_fetch(params) :
       LET asked == log_message(rawg.rawg_conversation, "user", <<tool, arg>>)
           sent == rawg.requests \o response.sent
           games == IF response.data = "one_game" THEN 1 ELSE 0
       IN IF ~response.success
          THEN /\ result' = Return(<<"RAWG API error">>)
               /\ rawg' = [rawg EXCEPT !.rawg_conversation = asked, !.requests = sent]
          ELSE IF response.data = "other_shape"
          THEN /\ result' = Return(<<"Error", tool>>)
               /\ rawg' = [rawg EXCEPT
                             !.rawg_conversation =
                               log_message(asked, "assistant", <<"Error", tool>>),
                             !.requests = sent]
          ELSE /\ result' = Return(<<"games", tool, arg, games>>)
               /\ rawg' = [rawg EXCEPT
                             !.rawg_conversation =
                               log_message(asked, "assistant", <<"found", arg, games>>),
                             !.requests = sent]

search_games(query, page_size) ==
  /\ call' = [op |-> "search_games", arg |-> query, page_size |-> page_size]
  /\ IF query = ""
     THEN result' = Return(<<"Error: query is required">>) /\ UNCHANGED rawg
     ELSE fetch_games("search_games", query,
                      [search |-> query, page_size |-> clamp(page_size),
                       search_precise |-> "true"])
  /\ UNCHANGED <<seasons, profiles, palettes>>

get_popular_games(page_size) ==
  /\ call' = [op |-> "get_popular_games", arg |-> "", page_size |-> page_size]
  /\ fetch_games("get_popular_games", "",
                 [ordering |-> "-added", page_size |-> clamp(page_size)])
  /\ UNCHANGED <<seasons, profiles, palettes>>

get_games_by_genre(genre, page_size) ==
  /\ call' = [op |-> "get_games_by_genre", arg |-> genre, page_size |-> page_size]
  /\ IF genre = ""
     THEN result' = Return(<<"Error: genre is required">>) /\ UNCHANGED rawg
     ELSE fetch_games("get_games_by_genre", genre,
                      [genres |-> lower(genre), page_size |-> clamp(page_size),
                       ordering |-> "-rating"])
  /\ UNCHANGED <<seasons, profiles, palettes>>

get_trending_games(page_size) ==
  /\ call' = [op |-> "get_trending_games", arg |-> "", page_size |-> page_size]
  /\ fetch_games("get_trending_games", "",
                 [dates |-> "2023-01-01,2024-12-31", ordering |-> "-metacritic",
                  page_size |-> clamp(page_size)])
  /\ UNCHANGED <<seasons, profiles, palettes>>

get_games_by_platform(platform, page_size) ==
  /\ call' = [op |-> "get_games_by_platform", arg |-> platform, page_size |-> page_size]
  /\ IF platform = ""
     THEN result' = Return(<<"Error: platform is required">>) /\ UNCHANGED rawg
     ELSE fetch_games("get_games_by_platform", platform,
                      [platforms |-> lower(platform), page_size |-> clamp(page_size),
                       ordering |-> "-rating"])
  /\ UNCHANGED <<seasons, profiles, palettes>>

\* an empty and a non-empty query, genre or platform
GameArgs == {"", "RPG"}

\* page sizes below, in and above the range 1..20
PageSizes == {0, 1, 5, 20, 21}

InitGames ==
  /\ seasons = SEASONS
  /\ profiles = EmptyStore
  /\ palettes = EmptyStore
  /\ rawg \in {RawgStart(key_configured) : key_configured \in BOOLEAN}
  /\ call = [op |-> "none", user_id |-> 0]
  /\ result = NoResult

NextGames ==
  \/ \E query \in GameArgs, page_size \in PageSizes : search_games(query, page_size)
  \/ \E page_size \in PageSizes : get_popular_games(page_size)
  \/ \E genre \in GameArgs, page_size \in PageSizes : get_games_by_genre(genre, page_size)
  \/ \E page_size \in PageSizes : get_trending_games(page_size)
  \/ \E platform \in GameArgs, page_size \in PageSizes :
       get_games_by_platform(platform, page_size)

SpecGames == InitGames /\ [][NextGames]_vars

(***************************************************************************)
(* Properties of analyze_undertone                                         *)
(***************************************************************************)
Returned == result.kind = "return"

InEnums ==
  /\ call.vein_color \in VeinColors
  /\ call.jewelry_preference \in JewelryPreferences
  /\ call.sun_reaction \in SunReactions
  /\ call.natural_lip_color \in LipColors

\* C1: the category follows from the total score alone: score <= -1 is frio,
\* score >= +1 is calido, anything else neutro; -1 is frio, +1 is calido, 0 neutro.
C1_CategoryFromScore ==
  (call.op = "analyze_undertone" /\ Returned /\ InEnums) =>
    LET s2 == result.value.score2
        u == result.value.undertone
    IN /\ (s2 <= -2) => u = "frio"
       /\ (s2 >= 2) => u = "calido"
       /\ (s2 > -2 /\ s2 < 2) => u = "neutro"
       /\ (s2 = -2) => u = "frio"
       /\ (s2 = 2) => u = "calido"
       /\ (s2 = 0) => u = "neutro"

C1_Witness ==
  /\ call.op = "analyze_undertone" /\ Returned /\ InEnums
  /\ result.value.score2 = -2
  /\ result.value.undertone = "frio"

\* C2: the raw score is 2*vein + jewelry + sun + lip with the documented
\* weights (here in half units); the vein term lies in -4..+4 and the total
\* in -7..+7.
C2_VeinTerm2(v) ==
  CASE v = "azul" -> -8
    [] v = "azul_verdoso" -> -4
    [] v = "purpura" -> -4
    [] v = "verde" -> 8
    [] v = "verde_oliva" -> 8
    [] v = "indefinido" -> 0

C2_JewelryTerm2(j) ==
  CASE j = "plata" -> -3 [] j = "oro" -> 3 [] j = "ambos" -> 0

C2_SunTerm2(s) ==
  CASE s = "se_quema" -> -2 [] s = "broncea_despacio" -> -1 [] s = "broncea_facil" -> 2

C2_LipTerm2(l) ==
  CASE l = "rosado" -> -1 [] l = "coral" -> 0 [] l = "durazno" -> 1 [] OTHER -> 0

C2_ScoreIsWeightedSum ==
  (call.op = "analyze_undertone" /\ Returned /\ InEnums) =>
    /\ result.value.score2 = C2_VeinTerm2(call.vein_color)
                               + C2_JewelryTerm2(call.jewelry_preference)
                               + C2_SunTerm2(call.sun_reaction)
                               + C2_LipTerm2(call.natural_lip_color)
    /\ C2_VeinTerm2(call.vein_color) \in -8..8
    /\ result.value.score2 \in -14..14

C2_Witness ==
  /\ call.op = "analyze_undertone" /\ Returned
  /\ call.vein_color = "azul" /\ call.jewelry_preference = "plata"
  /\ call.sun_reaction = "se_quema" /\ call.natural_lip_color = "rosado"
  /\ result.value.score2 = -14

(***************************************************************************)
(* Properties of determine_season                                          *)
(***************************************************************************)
UsedContrast == result.value.reasoning[3]

InTable ==
  /\ call.skin_tone \in SkinTones
  /\ call.undertone \in Undertones
  /\ UsedContrast \in ContrastLevels

\* C3: for every (skin tone, undertone, adjusted contrast) triple of the 27
\* the returned season is the one the decision table assigns, one of the 8
\* seasons; (clara, calido, bajo) gives primavera_clara and
\* (oscura, frio, alto) gives invierno_profundo.
C3_SeasonFromTable ==
  (call.op = "determine_season" /\ Returned /\ InTable) =>
    LET key == <<call.skin_tone, call.undertone, UsedContrast>>
    IN /\ key \in DOMAIN season_matrix
       /\ result.value.season = season_matrix[key]
       /\ result.value.season \in SeasonIds
       /\ result.value.season_info = SEASONS[result.value.season]
       /\ key = <<"clara", "calido", "bajo">> => result.value.season = "primavera_clara"
       /\ key = <<"oscura", "frio", "alto">> => result.value.season = "invierno_profundo"

C3_Witness ==
  /\ call.op = "determine_season" /\ Returned
  /\ call.skin_tone = "oscura" /\ call.undertone = "frio"
  /\ call.hair_color = "gris" /\ call.eye_color = "gris"
  /\ call.contrast_level = "alto"
  /\ result.value.season = "invierno_profundo"

\* C4: the contrast used for the lookup is the override value when
\* (hairColor, eyeColor) is a pair of the override table, whatever the caller
\* supplied, and the caller's contrastLevel otherwise.
C4_OverridePairs ==
  {<<"negro", "azul">>, <<"negro", "verde">>, <<"rubio", "cafe">>,
   <<"rubio", "azul">>, <<"castano", "verde">>, <<"pelirrojo", "verde">>}

C4_ContrastOverride ==
  (call.op = "determine_season" /\ Returned) =>
    LET pair == <<call.hair_color, call.eye_color>>
    IN /\ pair \in C4_OverridePairs => UsedContrast = contrast_adjustments[pair]
       /\ pair = <<"negro", "azul">> => UsedContrast = "alto"
       /\ pair = <<"rubio", "azul">> => UsedContrast = "bajo"
       /\ pair \notin C4_OverridePairs => UsedContrast = call.contrast_level
       /\ result.value.season =
            Get(season_matrix, <<call.skin_tone, call.undertone, UsedContrast>>,
                "verano_suave")

C4_Witness ==
  /\ call.op = "determine_season" /\ Returned
  /\ call.hair_color = "negro" /\ call.eye_color = "azul"
  /\ call.contrast_level = "bajo"
  /\ call.skin_tone = "clara" /\ call.undertone = "frio"
  /\ UsedContrast = "alto"
  /\ result.value.season = "invierno_brillante"

\* C6: a triple that is not a key of the decision table does not fail: the
\* call returns season verano_suave with that season's record.
C6_DefaultSeason ==
  (call.op = "determine_season" /\ Returned
     /\ <<call.skin_tone, call.undertone, UsedContrast>> \notin DOMAIN season_matrix) =>
    /\ result.value.season = "verano_suave"
    /\ result.value.season_info = SEASONS["verano_suave"]

C6_Witness ==
  /\ call.op = "determine_season" /\ Returned
  /\ call.skin_tone = Unknown
  /\ result.value.season = "verano_suave"

(***************************************************************************)
(* Properties of generate_harmony_palette                                  *)
(***************************************************************************)
HarmonyCalled == call.op = "generate_harmony_palette" /\ result.kind # "none"

White == <<"#","F","F","F","F","F","F">>

C8_Lighter(c) == hsl_to_hex(c.hn, c.hd, Min(c.ln + 102, 510), c.sn, c.sd)

C8_Darker(c) == hsl_to_hex(c.hn, c.hd, Max(c.ln - 102, 0), c.sn, c.sd)

C8_Complementary ==
  (HarmonyCalled /\ call.harmony_type = "complementary" /\ result.kind = "return"
     /\ call.base_colors # <<>>) =>
    LET seed == call.base_colors[1]
        s == hex_to_hsl(seed)
        comp == result.harmonies[2]
        v == result.variations
    IN /\ Len(result.harmonies) = 2
       /\ result.harmonies[1] = seed
       /\ comp \in hsl_to_hex((s.hn + (s.hd \div 2)) % s.hd, s.hd, s.ln, s.sn, s.sd)
       /\ Len(v) = 6
       /\ v[1] = seed /\ v[4] = comp
       /\ v[2] \in C8_Lighter(s) /\ v[3] \in C8_Darker(s)
       /\ v[5] \in C8_Lighter(hex_to_hsl(comp)) /\ v[6] \in C8_Darker(hex_to_hsl(comp))
       /\ {v[i] : i \in 1..6} \subseteq result.value
       /\ Cardinality(result.value) <= 6

C8_Witness ==
  /\ HarmonyCalled /\ call.harmony_type = "complementary" /\ result.kind = "return"
  /\ call.base_colors = <<Red>>
  /\ result.variations = <<Red,
                           <<"#","f","f","6","5","6","5">>,
                           <<"#","9","9","0","0","0","0">>,
                           <<"#","0","0","f","e","f","f">>,
                           <<"#","6","5","f","e","f","f">>,
                           <<"#","0","0","9","8","9","9">>>>
  /\ Cardinality(result.value) = 6

\* C9: the returned list is de-duplicated: no two of its entries denote the
\* same Color, a Color being a 6-hex-digit RGB triplet compared without
\* regard to case.
C9_NoDuplicateColors ==
  (HarmonyCalled /\ result.kind = "return") =>
    \A x \in result.value : \A y \in result.value :
      (x # y) => (hex_channels(x) # hex_channels(y))

\* C10: every colour of the scheme step yields exactly three variants at its
\* hue and saturation: itself, lightness min(l + 0.2, 1.0) and lightness
\* max(l - 0.2, 0.0); no variant has a lightness outside [0, 1], also for a
\* black or white seed.
C10_WellFormed(x) ==
  /\ Len(x) = 7 /\ x[1] = "#"
  /\ \A i \in 2..7 : x[i] \in DOMAIN HexValues

C10_ThreeVariants ==
  (HarmonyCalled /\ result.kind = "return") =>
    LET h == result.harmonies
        v == result.variations
    IN /\ Len(v) = 3 * Len(h)
       /\ \A i \in 1..Len(h) :
            LET c == hex_to_hsl(h[i])
            IN /\ v[3 * i - 2] = h[i]
               /\ v[3 * i - 1] \in hsl_to_hex(c.hn, c.hd, Min(c.ln + 102, 510), c.sn, c.sd)
               /\ v[3 * i] \in hsl_to_hex(c.hn, c.hd, Max(c.ln - 102, 0), c.sn, c.sd)
               /\ \A j \in {3 * i - 1, 3 * i} :
                    /\ C10_WellFormed(v[j])
                    /\ hex_to_hsl(v[j]).ln \in 0..510

C10_Witness ==
  /\ HarmonyCalled /\ result.kind = "return"
  /\ call.base_colors = <<White>>
  /\ call.harmony_type = "complementary"
  /\ result.variations[2] = <<"#","f","f","f","f","f","f">>
  /\ result.variations[3] = <<"#","c","c","c","c","c","c">>

(***************************************************************************)
(* Properties of create_profile                                            *)
(***************************************************************************)
\* C5: the season stored by a successful create_profile is the one
\* determine_season yields for the profile's skin tone, eyes, hair and
\* contrast with the undertone analyze_undertone computed from the same
\* call's vein colour, jewelry preference, sun reaction and lip colour; the
\* scenario profile stores score +7, calido and primavera_clara.
C5_StoredSeason(p) ==
  LET ph == p.physical_characteristics
      pr == p.preferences
      ua == analyze_undertone(ph.vein_color, pr.jewelry_preference,
                              pr.sun_reaction, ph.natural_lip_color)
      expected == Get(season_matrix,
                      <<ph.skin_tone, ua.undertone,
                        Get(contrast_adjustments, <<ph.hair_color, ph.eye_color>>,
                            ph.contrast_level)>>,
                      "verano_suave")
  IN /\ p.color_analysis.undertone_analysis = ua
     /\ p.color_analysis.season_analysis.season = expected
     /\ p.color_analysis.season_analysis.season_info = SEASONS[expected]
     /\ p.color_analysis.recommended_colors = SEASONS[expected].best_colors
     /\ (/\ ph.skin_tone = "clara" /\ ph.vein_color = "verde"
         /\ pr.jewelry_preference = "oro" /\ pr.sun_reaction = "broncea_facil"
         /\ ph.natural_lip_color = "durazno" /\ ph.eye_color = "azul"
         /\ ph.hair_color = "rubio" /\ ph.contrast_level = "bajo")
        => (/\ ua.score2 = 14
            /\ p.color_analysis.undertone_analysis.undertone = "calido"
            /\ p.color_analysis.season_analysis.season = "primavera_clara")

CreateSucceeded ==
  /\ call.op = "create_profile"
  /\ result.kind = "return"
  /\ "success" \in DOMAIN result.value

C5_SeasonFromDerivedUndertone ==
  /\ \A u \in DOMAIN profiles : C5_StoredSeason(profiles[u])
  /\ CreateSucceeded =>
       /\ call.user_id \in DOMAIN profiles
       /\ result.value.profile = profiles[call.user_id]

C5_Witness ==
  /\ CreateSucceeded
  /\ profiles[call.user_id].physical_characteristics = 
       [skin_tone |-> "clara", vein_color |-> "verde", eye_color |-> "azul",
        hair_color |-> "rubio", natural_lip_color |-> "durazno",
        contrast_level |-> "bajo"]
  /\ profiles[call.user_id].color_analysis.undertone_analysis.score2 = 14
  /\ profiles[call.user_id].color_analysis.season_analysis.season = "primavera_clara"

(***************************************************************************)
(* C11: for each of the four schemes and every seed, every hue derived in   *)
(* the scheme step is (seed hue + scheme offset) mod 1.0 and lies in        *)
(* [0, 1), also when the offset is negative or the sum passes 1; the        *)
(* derived colours are made with the saturation and lightness of the seed;  *)
(* complementary gives 2 colours and the other schemes 3.                   *)
(***************************************************************************)
\* the offsets from the seed hue, in thousandths of a turn
C11_Offsets ==
  [t \in Schemes |->
     CASE t = "complementary" -> <<500>>
       [] t = "analogous" -> <<83, -83>>
       [] t = "triadic" -> <<333, 667>>
       [] t = "split_complementary" -> <<583, 417>>]

C11_SchemeCalled ==
  /\ HarmonyCalled
  /\ result.kind = "return"
  /\ call.harmony_type \in Schemes
  /\ Len(call.base_colors) > 0

C11_HueWraps ==
  C11_SchemeCalled =>
    LET c == hex_to_hsl(call.base_colors[1])
        offs == C11_Offsets[call.harmony_type]
        args == result.scheme_args
    IN /\ Len(args) = Len(offs)
       /\ Len(result.harmonies) = Len(offs) + 1
       /\ Len(result.harmonies) = IF call.harmony_type = "complementary" THEN 2 ELSE 3
       /\ \A i \in 1..Len(offs) :
            /\ args[i].hd = c.hd
            /\ 0 <= args[i].hn /\ args[i].hn < args[i].hd
            /\ \E n \in -1..1 :
                 args[i].hn = c.hn + offs[i] * (c.hd \div HueThousandths) + n * c.hd
            /\ args[i].ln = c.ln /\ args[i].sn = c.sn /\ args[i].sd = c.sd
            /\ result.harmonies[i + 1] \in
                 hsl_to_hex(args[i].hn, args[i].hd, args[i].ln, args[i].sn, args[i].sd)

\* analogous on #8B4513 (hue 0.069): the -30 degree hue wraps below 0
C11_Witness ==
  /\ C11_SchemeCalled
  /\ call.harmony_type = "analogous"
  /\ call.base_colors[1] = <<"#","8","B","4","5","1","3">>
  /\ hex_to_hsl(call.base_colors[1]).hn < 83 * (hex_to_hsl(call.base_colors[1]).hd \div HueThousandths)
  /\ result.scheme_args[2].hn > hex_to_hsl(call.base_colors[1]).hn

\* complementary on #B0C4DE (hue 0.594): the sum passes 1 and wraps
C11_WrapAboveOne ==
  /\ C11_SchemeCalled
  /\ call.harmony_type = "complementary"
  /\ call.base_colors[1] = <<"#","B","0","C","4","D","E">>
  /\ result.scheme_args[1].hn < hex_to_hsl(call.base_colors[1]).hn

(***************************************************************************)
(* C12: generate_harmony_palette called with a scheme that is none of the   *)
(* four known ones fails with the UnknownScheme error and returns no        *)
(* palette.                                                                 *)
(***************************************************************************)
C12_UnknownSchemeFails ==
  (HarmonyCalled /\ call.harmony_type \notin Schemes) =>
    (result.kind = "raise" /\ result.error = "UnknownScheme")

(***************************************************************************)
(* C16: the confidence analyze_undertone returns is min(|score| * 20, 100)  *)
(* for every input: it lies in 0..100 and is 100 exactly when               *)
(* |score| >= 5.  (score2 is twice the score.)                              *)
(***************************************************************************)
C16_Confidence ==
  (call.op = "analyze_undertone" /\ Returned) =>
    LET s2 == result.value.score2
        mag2 == IF s2 < 0 THEN -s2 ELSE s2
        conf == result.value.confidence
    IN /\ conf \in 0..100
       /\ conf = (IF 10 * mag2 < 100 THEN 10 * mag2 ELSE 100)
       /\ (conf = 100) <=> (mag2 >= 10)

\* a score of -7: |score| * 20 = 140 is capped at 100
C16_Witness ==
  /\ call.op = "analyze_undertone" /\ Returned
  /\ result.value.score2 = -14
  /\ result.value.confidence = 100

(***************************************************************************)
(* C17: analyze_undertone never fails on a value outside its enumerations:  *)
(* an unknown vein colour, jewelry preference, sun reaction or lip colour   *)
(* adds 0 to the score and the other terms count as usual; the lip colours  *)
(* cafe_rosado and rojo_natural add 0.                                      *)
(***************************************************************************)
C17_Called == call.op = "analyze_undertone" /\ result # NoResult

C17_Sum2 ==
  (IF call.vein_color \in VeinColors THEN C2_VeinTerm2(call.vein_color) ELSE 0)
    + (IF call.jewelry_preference \in JewelryPreferences
       THEN C2_JewelryTerm2(call.jewelry_preference) ELSE 0)
    + (IF call.sun_reaction \in SunReactions THEN C2_SunTerm2(call.sun_reaction) ELSE 0)
    + (IF call.natural_lip_color \in {"rosado", "coral", "durazno"}
       THEN C2_LipTerm2(call.natural_lip_color) ELSE 0)

C17_UnknownValuesAddZero ==
  C17_Called =>
    /\ result.kind = "return"
    /\ result.value.score2 = C17_Sum2
    /\ result.value.undertone \in Undertones

\* only the lip colour is outside the enumeration: the score is that of the
\* other three terms, 2 * 2 + 1.5 + 1 = 6.5
C17_Witness ==
  /\ C17_Called
  /\ call.vein_color = "verde" /\ call.jewelry_preference = "oro"
  /\ call.sun_reaction = "broncea_facil" /\ call.natural_lip_color = Unknown
  /\ result.value.score2 = 13

(***************************************************************************)
(* C20: generate_harmony_palette uses only the first element of             *)
(* base_colors as the seed: with the same scheme, base colour lists that    *)
(* agree on their first element give the same colours, whatever follows     *)
(* the first element.  The outcome of a call is derived, step by step,      *)
(* from the first element and the scheme with no reference to the elements  *)
(* after it: a malformed first element fails, otherwise the scheme colours  *)
(* come from the first element, the variants from the scheme colours and    *)
(* the colours returned are those variants.                                 *)
(***************************************************************************)
C20_FromSeed(seed, harmony_type, r) ==
  IF ~hex_ok(seed) THEN r = Raise("ValueError")
  ELSE LET args == scheme_args(seed, harmony_type)
           n == IF harmony_type \in Schemes THEN Len(args) + 1 ELSE 0
       IN /\ r.kind = "return"
          /\ r.scheme_args = args
          /\ Len(r.harmonies) = n
          /\ n > 0 => r.harmonies[1] = seed
          /\ \A i \in 1..Len(args) :
               n > 0 => r.harmonies[i + 1] \in
                          hsl_to_hex(args[i].hn, args[i].hd, args[i].ln,
                                     args[i].sn, args[i].sd)
          /\ Len(r.variations) = 3 * n
          /\ \A i \in 1..n :
               <<r.variations[3 * i - 2], r.variations[3 * i - 1], r.variations[3 * i]>>
                 \in variants_of(r.harmonies[i])
          /\ r.value = Range(r.variations)

C20_OnlyFirstElement ==
  (HarmonyCalled /\ Len(call.base_colors) > 0) =>
    C20_FromSeed(call.base_colors[1], call.harmony_type, result)

\* a seed followed by a string that is no colour: the call returns the six
\* colours of the seed alone
C20_Witness ==
  /\ HarmonyCalled
  /\ Len(call.base_colors) = MaxBase
  /\ call.base_colors[1] = <<"#","B","0","C","4","D","E">>
  /\ call.base_colors[MaxBase] = <<"#","G","G","0","0","0","0">>
  /\ call.harmony_type = "complementary"
  /\ result.kind = "return"
  /\ Cardinality(result.value) = 6

(***************************************************************************)
(* Properties of hex_to_hsl and hsl_to_hex                                  *)
(***************************************************************************)
\* one optional leading '#' removed
StripOne(s) == IF Len(s) > 0 /\ s[1] = "#" THEN Tail(s) ELSE s

\* exactly 6 hexadecimal digits after one optional '#'
WellFormed(s) ==
  /\ Len(StripOne(s)) = 6
  /\ \A i \in 1..6 : StripOne(s)[i] \in DOMAIN HexValues

\* the value of the i-th channel of a well-formed colour
Channel(s, i) ==
  16 * HexValues[StripOne(s)[2 * i - 1]] + HexValues[StripOne(s)[2 * i]]

\* C14: hex_to_hsl fails for every input that is not exactly 6 hexadecimal
\* digits after one optional leading '#' (shorter, longer, non-hex), and it
\* succeeds, changing nothing, for every well-formed input.
C14_MalformedFails ==
  (call.op = "hex_to_hsl" /\ result # NoResult) =>
    /\ WellFormed(call.hex_color) => result.kind = "return"
    /\ ~WellFormed(call.hex_color) => result.kind = "raise"
    /\ profiles = EmptyStore /\ palettes = EmptyStore /\ seasons = SEASONS

\* C15: for every well-formed 6-digit colour x, hsl_to_hex(hex_to_hsl(x)) is
\* a colour each of whose three channels is within 1 of the channel of x;
\* #336699 comes back within 1 per channel.
C15_RoundTrip ==
  (call.op = "hsl_to_hex" /\ WellFormed(call.hex_color)) =>
    /\ result.kind = "return"
    /\ WellFormed(result.value)
    /\ Len(result.value) = 7
    /\ \A i \in 1..3 :
         Channel(result.value, i) - Channel(call.hex_color, i) \in -1..1

\* #336699 comes back as #326599
C15_Witness ==
  /\ call.op = "hsl_to_hex"
  /\ call.hex_color = <<"#","3","3","6","6","9","9">>
  /\ result = Return(<<"#","3","2","6","5","9","9">>)

(***************************************************************************)
(* Properties of the palette tools                                         *)
(***************************************************************************)
\* C13: a call of generate_palette or quick_palette with a palette type
\* outside {ropa, maquillaje, accesorios} returns an error and leaves the
\* profile store and every user's palette history as they were.
C13_InvalidTypeRejected ==
  [][(/\ call'.op \in {"generate_palette", "quick_palette"}
      /\ call'.palette_type \notin PaletteTypes)
       => /\ result'.kind = "return"
          /\ "error" \in DOMAIN result'.value
          /\ profiles' = profiles
          /\ palettes' = palettes]_vars

\* C19: whatever tools were called, the season table has its 8 records and
\* each of them, best_colors and avoid_colors included, has its initial value.
C19_SeasonsNeverChange ==
  /\ DOMAIN seasons = DOMAIN SEASONS
  /\ Cardinality(DOMAIN seasons) = 8
  /\ \A s \in DOMAIN SEASONS : seasons[s] = SEASONS[s]

\* quick_palette has handed out the best colours of a season in an
\* accessories palette while a profile and a generated palette are stored
C19_Witness ==
  /\ call.op = "quick_palette"
  /\ call.palette_type = "accesorios"
  /\ result.value.palette.colors.panuelos_bufandas = SEASONS.verano_suave.best_colors
  /\ \E u \in DOMAIN palettes : Len(palettes[u]) > 0
  /\ \E u \in DOMAIN profiles :
       profiles[u].color_analysis.season_analysis.season_info
         = SEASONS.invierno_profundo

\* the four inputs of analyze_undertone a stored profile was created with
undertone_inputs(profile) ==
  <<profile.physical_characteristics.vein_color,
    profile.preferences.jewelry_preference,
    profile.preferences.sun_reaction,
    profile.physical_characteristics.natural_lip_color>>

C21_MakeupSlots ==
  call.op = "generate_makeup_palette" =>
    LET b == call.base_colors
        n == Len(b)
    IN /\ generate_makeup_palette(b, seasons[call.season], call.event_type) # {}
       /\ result # NoResult =>
            /\ result.kind = "return"
            /\ result.value.ojos.sombras_principales
                 = (IF n >= 2 THEN <<b[1], b[2]>> ELSE b)
            /\ result.value.ojos.sombra_iluminadora
                 = (IF n >= 3 THEN b[3] ELSE <<"#","F","F","F","F","F","F">>)
            /\ result.value.rostro.rubor
                 = (IF n >= 2 THEN b[2] ELSE <<"#","F","F","B","6","C","1">>)
            /\ result.value.labios.color_principal
                 = (IF n >= 1 THEN b[n] ELSE <<"#","F","F","6","9","B","4">>)
            /\ result.value.labios.alternativo
                 = (IF n >= 2 THEN b[n - 1] ELSE <<"#","F","F","B","6","C","1">>)

\* a list of four colours: the alternative lip colour is its third entry,
\* which is neither the blush nor the main lip colour
C21_Witness ==
  /\ call.op = "generate_makeup_palette"
  /\ call.base_colors = <<<<"#","F","F","6","B","3","5">>, <<"#","4","1","6","9","E","1">>, <<"r","o","j","o">>, <<"#","F","F","6","B","3","5">>>>
  /\ result.kind = "return"
  /\ result.value.labios.alternativo = <<"r","o","j","o">>
  /\ result.value.rostro.rubor = <<"#","4","1","6","9","E","1">>

(***************************************************************************)
(* Properties of generate_palette, export_data and the store                *)
(***************************************************************************)
\* C22: every palette that generate_palette returns, and every palette in
\* the store, has at most 8 harmony colours.
C22_HarmonyAtMostEight ==
  /\ \A u \in DOMAIN palettes : \A i \in 1..Len(palettes[u]) :
       Cardinality(palettes[u][i].harmony_colors) <= 8
  /\ (call.op = "generate_palette" /\ "success" \in DOMAIN result.value)
       => Cardinality(result.value.palette.harmony_colors) <= 8

\* generate_palette has returned and stored a palette of six harmony colours
C22_Witness ==
  /\ call.op = "generate_palette"
  /\ "success" \in DOMAIN result.value
  /\ Cardinality(result.value.palette.harmony_colors) = 6
  /\ palettes_of(1) = <<result.value.palette>>

NotFound(u) == Return(Error("no_encontrado", u))

C24_ExportComplete ==
  [][/\ (call'.op = "export_data" /\ call'.user_id \in DOMAIN profiles)
         => /\ "success" \in DOMAIN result'.value
            /\ result'.value.exported_data.profile = profiles[call'.user_id]
            /\ result'.value.exported_data.palettes = palettes_of(call'.user_id)
            /\ result'.value.summary.total_palettes = Len(palettes_of(call'.user_id))
     /\ (palettes' # palettes
           \/ (call'.op = "generate_palette" /\ "success" \in DOMAIN result'.value))
         => /\ call'.op = "generate_palette"
            /\ "success" \in DOMAIN result'.value
            /\ DOMAIN palettes' = DOMAIN palettes \cup {call'.user_id}
            /\ palettes'[call'.user_id]
                 = Append(palettes_of(call'.user_id), result'.value.palette)
            /\ \A v \in DOMAIN palettes \ {call'.user_id} :
                 palettes'[v] = palettes[v]]_vars

\* export_data(1) has returned two palettes, in the order of the store
C24_Witness ==
  /\ call.op = "export_data"
  /\ call.user_id = 1
  /\ "success" \in DOMAIN result.value
  /\ result.value.summary.total_palettes = 2
  /\ result.value.exported_data.palettes = palettes[1]
  /\ palettes[1][1] # palettes[1][2]

(***************************************************************************)
(* Properties of the game-lookup server                                     *)
(***************************************************************************)
\* the argument a tool requires, "" for a tool that requires none
required_argument(op) ==
  CASE op = "search_games" -> "query"
    [] op = "get_games_by_genre" -> "genre"
    [] op = "get_games_by_platform" -> "platform"
    [] OTHER -> ""

\* C25: every request that a call of search_games, get_popular_games,
\* get_games_by_genre, get_trending_games or get_games_by_platform sends
\* carries a page_size between 1 and 20: the caller's value when it is in
\* that range, 1 when it is below, 20 when it is above; and a call with an
\* empty query, genre or platform returns the 'is required' error, sends no
\* request and writes no log entry.
C25_PageSizeClamped ==
  [][/\ Len(rawg'.requests) \in {Len(rawg.requests), Len(rawg.requests) + 1}
     /\ \A i \in 1..Len(rawg.requests) : rawg'.requests[i] = rawg.requests[i]
     /\ \A i \in (Len(rawg.requests) + 1)..Len(rawg'.requests) :
          LET sent == rawg'.requests[i].params.page_size
          IN /\ sent \in 1..20
             /\ call'.page_size \in 1..20 => sent = call'.page_size
             /\ call'.page_size < 1 => sent = 1
             /\ call'.page_size > 20 => sent = 20
     /\ (required_argument(call'.op) # "" /\ call'.arg = "")
          => /\ result' = Return(<<"Error: " \o required_argument(call'.op)
                                              \o " is required">>)
             /\ rawg' = rawg]_vars

\* a second request has been sent: get_games_by_platform was called with a
\* page size of 21 and the request carries 20
C25_Witness ==
  /\ call.op = "get_games_by_platform"
  /\ call.page_size = 21
  /\ Len(rawg.requests) = 2
  /\ rawg.requests[2].params.page_size = 20
  /\ rawg.requests[2].params.platforms = "rpg"

(***************************************************************************)
(* Properties of the store of the server                                    *)
(***************************************************************************)
\* C26: create_profile called when a required field is missing or when the
\* user id already has a profile returns an error and leaves all profiles
\* and all palette histories as they were; otherwise it succeeds, adds the
\* profile it returns under that user id and leaves every other profile and
\* every palette history as it was.
C26_CreateNeverOverwrites ==
  [][\A args \in PaletteCreateArgs :
       tool_create_profile(args) =>
         IF \/ \E i \in 1..Len(required_fields) : required_fields[i] \notin DOMAIN args
            \/ args["user_id"] \in DOMAIN profiles
         THEN /\ "error" \in DOMAIN result'.value
              /\ profiles' = profiles
              /\ palettes' = palettes
         ELSE /\ "success" \in DOMAIN result'.value
              /\ DOMAIN profiles' = DOMAIN profiles \cup {args["user_id"]}
              /\ profiles'[args["user_id"]] = result'.value.profile
              /\ \A v \in DOMAIN profiles : profiles'[v] = profiles[v]
              /\ palettes' = palettes]_vars

\* create_profile(2) has succeeded while user 1 has a profile and palettes
\* are stored for both users
C26_Witness ==
  /\ call.op = "create_profile"
  /\ call.user_id = 2
  /\ "success" \in DOMAIN result.value
  /\ DOMAIN profiles = {1, 2}
  /\ Len(palettes_of(1)) > 0
  /\ Len(palettes_of(2)) > 0

\* create_profile(1) has been refused: user 1 has a profile already
C26_WitnessRefused ==
  /\ call.op = "create_profile"
  /\ call.user_id = 1
  /\ result = Return(Error("ya_existe", 1))
  /\ 1 \in DOMAIN profiles

\* C27: in every reachable state of the store, each user id that has a
\* stored palette has a stored profile.
C27_PalettesHaveProfile ==
  \A u \in DOMAIN palettes : Len(palettes[u]) > 0 => u \in DOMAIN profiles

\* C28: generate_palette never changes a profile; called with both required
\* fields for a user without a profile it returns the not-found error and
\* leaves the store as it was; when it succeeds it appends the palette it
\* returns to the end of the history of its user, whose earlier entries, like
\* the histories of the other users, stay as they were; when it returns an
\* error the store is unchanged.
C28_GenerateAppendsOnly ==
  [][\A args \in GenerateArgs :
       tool_generate_palette(args) =>
         /\ profiles' = profiles
         /\ "error" \in DOMAIN result'.value => palettes' = palettes
         /\ (/\ generate_missing(args) = ""
             /\ args["user_id"] \notin DOMAIN profiles)
              => result' = NotFound(args["user_id"])
         /\ "success" \in DOMAIN result'.value =>
              LET u == args["user_id"]
                  before == IF u \in DOMAIN palettes THEN palettes[u] ELSE <<>>
              IN /\ u \in DOMAIN profiles
                 /\ DOMAIN palettes' = DOMAIN palettes \cup {u}
                 /\ Len(palettes'[u]) = Len(before) + 1
                 /\ \A i \in 1..Len(before) : palettes'[u][i] = before[i]
                 /\ palettes'[u][Len(before) + 1] = result'.value.palette
                 /\ \A v \in DOMAIN palettes \ {u} : palettes'[v] = palettes[v]]_vars

\* generate_palette(2) has appended a second palette to the history of user 2
C28_Witness ==
  /\ call.op = "generate_palette"
  /\ call.user_id = 2
  /\ "success" \in DOMAIN result.value
  /\ Len(palettes_of(2)) = 2
  /\ palettes[2][2] = result.value.palette
  /\ palettes[2][1] # palettes[2][2]

(***************************************************************************)
(* Properties of the season classification                                  *)
(***************************************************************************)
\* C29: for each skin tone in {clara, media, oscura} and undertone in
\* {frio, calido, neutro}, the season quick_palette uses is the season that
\* determine_season returns for that skin tone, that undertone and the
\* contrast medio, whatever hair and eye colours without a contrast
\* adjustment it is given.
C29_QuickAgreesWithClassifier ==
  (/\ call.op = "quick_palette"
   /\ call.skin_tone \in SkinTones
   /\ call.undertone \in Undertones)
    => \A hair_color \in HairColors, eye_color \in EyeColors :
         <<hair_color, eye_color>> \notin DOMAIN contrast_adjustments
           => result.value.palette.estimated_season
                = determine_season(call.skin_tone, call.undertone, eye_color,
                                   hair_color, "medio").season_info.name

\* the profile tool_create_profile builds for a user whose physical traits
\* are those of the determine_season call
profile_of_call(vein_color, jewelry_preference, sun_reaction, natural_lip_color) ==
  new_profile([user_id |-> 1, name |-> "Ana", skin_tone |-> call.skin_tone,
               vein_color |-> vein_color, jewelry_preference |-> jewelry_preference,
               sun_reaction |-> sun_reaction, eye_color |-> call.eye_color,
               hair_color |-> call.hair_color,
               natural_lip_color |-> natural_lip_color,
               contrast_level |-> call.contrast_level])

\* C30: for every enumerated skin tone, contrast level, hair colour and eye
\* colour, determine_season with undertone calido returns a season of
\* temperature calido and with undertone frio a season of temperature frio;
\* and the profile create_profile builds from such traits and any enumerated
\* vein colour, jewelry preference, sun reaction and lip colour pairs an
\* undertone analysis of calido or frio with a season of that temperature.
C30_TemperatureMatchesUndertone ==
  (/\ call.op = "determine_season"
   /\ call.skin_tone \in SkinTones
   /\ call.contrast_level \in ContrastLevels)
    => /\ (result # NoResult /\ call.undertone \in {"calido", "frio"})
            => result.value.season_info.temperature = call.undertone
       /\ result = NoResult
            => \A vein_color \in VeinColors, jewelry_preference \in JewelryPreferences,
                  sun_reaction \in SunReactions, natural_lip_color \in LipColors :
                 LET analysis == profile_of_call(vein_color, jewelry_preference,
                                                 sun_reaction, natural_lip_color).color_analysis
                 IN analysis.undertone_analysis.undertone \in {"calido", "frio"}
                      => analysis.season_analysis.season_info.temperature
                           = analysis.undertone_analysis.undertone

\* a warm undertone with light skin and low contrast, raised to high by black
\* hair and blue eyes: the season is Primavera Cálida, of temperature calido
C30_Witness ==
  /\ call.op = "determine_season"
  /\ call.skin_tone = "clara"
  /\ call.undertone = "calido"
  /\ call.hair_color = "negro"
  /\ call.eye_color = "azul"
  /\ call.contrast_level = "bajo"
  /\ result.kind = "return"
  /\ result.value.season = "primavera_calida"
  /\ result.value.season_info.temperature = "calido"

====
